---- MODULE Spec2Model ----
(***************************************************************************)
(* Storage engine of the clipboard-history manager (src/storage.py) and    *)
(* the backend slots that drive it (src/qml_backend.py).                   *)
(*                                                                         *)
(* Tables are sets of rows (records).  A nullable column holds Null (the   *)
(* empty tuple) or Some(v) (the one-element tuple <<v>>).  Every Storage   *)
(* method is an operator from a database value to a result record          *)
(* [db, ret, err]; every action is one whole call of a Storage method or   *)
(* of a backend slot, trailing prune / refresh included.                   *)
(***************************************************************************)
EXTENDS Integers, Sequences, FiniteSets, TLC

VARIABLES
    opened,                 \* Storage.__init__ has run (the connection is open)
    groups,                 \* table groups(id, name, position)
    items,                  \* table items(...)
    subitems,               \* table subitems(id, item_id, text, icons, tag, created_at)
    settings,               \* table settings(key, value), a function key -> value
    sqlite_sequence,        \* AUTOINCREMENT counters, one per table
    max_items_per_group,    \* Storage.max_items_per_group
    current_group_id,       \* Backend._current_group_id (Null = the "All" view)
    destination_group_id,   \* Backend._destination_group_id
    outcome,                \* what the last call raised / emitted as statusMessage
    op_worker,              \* Backend._op_worker: the slot of an OperationWorker or Null
    operation,              \* the workers and the running flag of Backend (see NewOperation)
    lock,                   \* Storage._lock: the owning thread and its recursion count
    threads,                \* where each thread calling the Storage methods stands
    clipboard               \* the clipboard watcher of Backend (see NewClipboard)

vars == <<opened, groups, items, subitems, settings, sqlite_sequence,
          max_items_per_group, current_group_id, destination_group_id, outcome,
          op_worker, operation, lock, threads, clipboard>>

----------------------------------------------------------------------------
(* Bounds of the model. *)

MaxGroupId == 3         \* group ids handed out by AUTOINCREMENT
MaxItemId == 3          \* item ids handed out by AUTOINCREMENT
MaxSubitemId == 2       \* subitem ids handed out by AUTOINCREMENT
MaxTime == 2            \* timestamps (seconds) are 1..MaxTime
MaxConfigured == 2      \* storage.maxItemsPerGroup of config.yaml is 1..MaxConfigured
MaxChanges == 3         \* clipboard changes the watcher is told of
MaxWorkers == 2         \* OperationWorker objects that exist at a time

(* Program constants. *)

DEFAULT_MAX_STORAGE_PER_GROUP == 300
PLUGIN_GROUP_ID == -99
PREVIEW_TEXT_LIMIT == 800

----------------------------------------------------------------------------
(* Nullable values. *)

Null == << >>
Some(v) == <<v>>
Coalesce(a, b) == IF a = Null THEN b ELSE a[1]

Max(S, dflt) == IF S = {} THEN dflt ELSE CHOOSE m \in S : \A x \in S : x <= m

(* ORDER BY under a strict total order Before: the row at index i is the   *)
(* row with exactly i-1 rows before it.                                    *)
OrderBy(S, Before(_, _)) ==
    [i \in 1..Cardinality(S) |->
        CHOOSE r \in S : Cardinality({s \in S : Before(s, r)}) = i - 1]

SeqRange(s) == {s[i] : i \in 1..Len(s)}

----------------------------------------------------------------------------
(* Strings.  TLC strings are atoms, so str.strip(), str.lower() and SQL    *)
(* LOWER() are tabulated on the strings the model uses.                    *)

RawNames == {"Default", "default", "Work", " Work ", "Home", " "}

Strip(s) ==
    CASE s = " Work " -> "Work"
      [] s = " "      -> ""
      [] OTHER        -> s

Lower(s) ==
    CASE s = "Default"   -> "default"
      [] s = "Work"      -> "work"
      [] s = "Home"      -> "home"
      [] s = "Translate" -> "translate"
      [] s = "TRANSLATE" -> "translate"
      [] OTHER           -> s

(* str.lower of Python folds every cased letter. *)
PyLower(s) == IF s = "É" THEN "é" ELSE Lower(s)

Str(n) == ToString(n)

IntLiterals == {Str(n) : n \in 0..(MaxGroupId + 1)}
ParseInt(s) == CHOOSE n \in 0..(MaxGroupId + 1) : Str(n) = s

----------------------------------------------------------------------------
(* The database value the Storage methods work on. *)

DB == [groups |-> groups, items |-> items, subitems |-> subitems,
       settings |-> settings, seq |-> sqlite_sequence]

EmptyDB == [groups |-> {}, items |-> {}, subitems |-> {},
            settings |-> << >>,
            seq |-> [groups |-> 0, items |-> 0, subitems |-> 0]]

Ok(db, ret) == [db |-> db, ret |-> ret, err |-> "none"]
Raise(db, e) == [db |-> db, ret |-> Null, err |-> e]

----------------------------------------------------------------------------
(* Group operations of Storage. *)

get_group_by_name(db, name) ==
    IF \E g \in db.groups : g.name = name
    THEN Some(CHOOSE g \in db.groups : g.name = name)
    ELSE Null

get_group_by_id(db, group_id) ==
    IF \E g \in db.groups : g.id = group_id
    THEN Some(CHOOSE g \in db.groups : g.id = group_id)
    ELSE Null

group_exists(db, group_id) == get_group_by_id(db, group_id) # Null

(* Mutation: the new position is the number of groups plus one. *)
Mut_create_group_counts(db, name) ==
    LET next_pos == Cardinality(db.groups) + 1
        new_id == db.seq.groups + 1
    IN  IF \E g \in db.groups : g.name = name
        THEN Raise(db, "IntegrityError")
        ELSE Ok([db EXCEPT
                   !.groups = @ \cup {[id |-> new_id, name |-> name,
                                       position |-> Some(next_pos)]},
                   !.seq.groups = new_id],
                new_id)

create_group(db, name) ==
    LET next_pos == Max({g.position[1] : g \in {h \in db.groups : h.position # Null}}, 0) + 1
        new_id == db.seq.groups + 1
    IN  IF \E g \in db.groups : g.name = name
        THEN Raise(db, "IntegrityError")
        ELSE Ok([db EXCEPT
                   !.groups = @ \cup {[id |-> new_id, name |-> name,
                                       position |-> Some(next_pos)]},
                   !.seq.groups = new_id],
                new_id)

(* Mutation: the UPDATE ignores the UNIQUE constraint on name. *)
Mut_rename_group_unchecked(db, group_id, name) ==
    Ok([db EXCEPT
          !.groups = {IF g.id = group_id THEN [g EXCEPT !.name = name] ELSE g
                      : g \in @}],
       Null)

rename_group(db, group_id, name) ==
    IF /\ \E g \in db.groups : g.id = group_id
       /\ \E g \in db.groups : g.id # group_id /\ g.name = name
    THEN Raise(db, "IntegrityError")
    ELSE Ok([db EXCEPT
               !.groups = {IF g.id = group_id THEN [g EXCEPT !.name = name] ELSE g
                           : g \in @}],
            Null)

delete_group(db, group_id) ==
    LET gone == {i.id : i \in {j \in db.items : j.group_id = group_id}}
    IN  Ok([db EXCEPT
              !.subitems = {s \in @ : s.item_id \notin gone},
              !.items = {i \in @ : i.group_id # group_id},
              !.groups = {g \in @ : g.id # group_id}],
           Null)

(* Comparison of two nullable integers as SQLite sorts them: NULL is       *)
(* smaller than every value.                                               *)
NullableLess(a, b) ==
    \/ a = Null /\ b # Null
    \/ a # Null /\ b # Null /\ a[1] < b[1]

GroupBefore(g, h) ==
    \/ NullableLess(g.position, h.position)
    \/ g.position = h.position /\ g.id < h.id

list_groups(db) == OrderBy(db.groups, GroupBefore)

(* Mutation: position = idx of enumerate, without the + 1. *)
RECURSIVE Mut_SetPositions_zero_based(_, _, _)
Mut_SetPositions_zero_based(grps, ordered_ids, idx) ==
    IF idx > Len(ordered_ids) THEN grps
    ELSE Mut_SetPositions_zero_based(
            {IF g.id = ordered_ids[idx] THEN [g EXCEPT !.position = Some(idx - 1)] ELSE g
             : g \in grps},
            ordered_ids, idx + 1)

RECURSIVE SetPositions(_, _, _)
SetPositions(grps, ordered_ids, idx) ==
    IF idx > Len(ordered_ids) THEN grps
    ELSE SetPositions(
            {IF g.id = ordered_ids[idx] THEN [g EXCEPT !.position = Some(idx)] ELSE g
             : g \in grps},
            ordered_ids, idx + 1)

update_group_positions(db, ordered_ids) ==
    Ok([db EXCEPT !.groups = SetPositions(@, ordered_ids, 1)], Null)

----------------------------------------------------------------------------
(* Settings. *)

get_setting(db, key, default) ==
    IF key \in DOMAIN db.settings THEN Some(db.settings[key]) ELSE default

(* Mutation: a plain INSERT that leaves a stored key as it is. *)
Mut_set_setting_keeps_first(db, key, value) ==
    Ok([db EXCEPT !.settings =
            [k \in (DOMAIN @) \cup {key} |-> IF k \in DOMAIN @ THEN @[k] ELSE value]],
       Null)

set_setting(db, key, value) ==
    Ok([db EXCEPT !.settings =
            [k \in (DOMAIN @) \cup {key} |-> IF k = key THEN value ELSE @[k]]],
       Null)

----------------------------------------------------------------------------
(* Item operations of Storage. *)

Freshness(i) == Coalesce(i.last_used_at, i.created_at)

(* Mutation: ORDER BY ... ASC, the prune keeps the stalest rows. *)
Mut_Fresher_ascending(i, j) ==
    \/ Freshness(i) < Freshness(j)
    \/ Freshness(i) = Freshness(j) /\ i.id < j.id

Fresher(i, j) ==
    \/ Freshness(i) > Freshness(j)
    \/ Freshness(i) = Freshness(j) /\ i.id > j.id

delete_item(db, item_id) ==
    Ok([db EXCEPT
          !.subitems = {s \in @ : s.item_id # item_id},
          !.items = {i \in @ : i.id # item_id}],
       Null)

RECURSIVE DeleteEach(_, _, _)
DeleteEach(db, ids, k) ==
    IF k > Len(ids) THEN db
    ELSE DeleteEach(delete_item(db, ids[k]).db, ids, k + 1)

(* Mutation: the slice starts one position late (ids[limit + 1:]). *)
Mut_prune_late_slice(db, group_id, limit) ==
    IF limit <= 0 THEN db
    ELSE LET rows == OrderBy({i \in db.items : i.group_id = group_id /\ i.pinned = 0},
                             Fresher)
             ids == [k \in 1..Len(rows) |-> rows[k].id]
         IN  IF Len(ids) <= limit THEN db
             ELSE DeleteEach(db, ids, limit + 2)

(* Mutation: the SELECT lacks "AND pinned=0". *)
Mut_prune_counts_pinned(db, group_id, limit) ==
    IF limit <= 0 THEN db
    ELSE LET rows == OrderBy({i \in db.items : i.group_id = group_id}, Fresher)
             ids == [k \in 1..Len(rows) |-> rows[k].id]
         IN  IF Len(ids) <= limit THEN db
             ELSE DeleteEach(db, ids, limit + 1)

(* len(ids) is the number of rows the SELECT returns. *)
_prune_group_items(db, group_id, limit) ==
    IF limit <= 0 THEN db
    ELSE LET selected == {i \in db.items : i.group_id = group_id /\ i.pinned = 0}
             rows == OrderBy(selected, Fresher)
             ids == [k \in 1..Len(rows) |-> rows[k].id]
         IN  IF Cardinality(selected) <= limit THEN db
             ELSE DeleteEach(db, ids, limit + 1)

(* Mutation: the INSERT binds preview_text to the content_text column. *)
Mut_insert_item_binds_preview(db, content_type, content_text, content_blob, preview_text, preview_blob, created_at, group_id) ==
    LET new_id == db.seq.items + 1
        row == [id |-> new_id,
                content |-> content_text,
                content_type |-> content_type,
                content_text |-> preview_text,
                content_blob |-> content_blob,
                preview_text |-> preview_text,
                preview_blob |-> preview_blob,
                created_at |-> created_at,
                last_used_at |-> Null,
                pinned |-> 0,
                pinned_at |-> Null,
                group_id |-> group_id]
    IN  Ok([db EXCEPT !.items = @ \cup {row}, !.seq.items = new_id], new_id)

(* Mutation: id INTEGER PRIMARY KEY without AUTOINCREMENT, the largest     *)
(* stored id plus one.                                                     *)
Mut_insert_item_reuses_rowid(db, content_type, content_text, content_blob, preview_text, preview_blob, created_at, group_id) ==
    LET new_id == Max({i.id : i \in db.items}, 0) + 1
        row == [id |-> new_id,
                content |-> content_text,
                content_type |-> content_type,
                content_text |-> Some(content_text),
                content_blob |-> content_blob,
                preview_text |-> preview_text,
                preview_blob |-> preview_blob,
                created_at |-> created_at,
                last_used_at |-> Null,
                pinned |-> 0,
                pinned_at |-> Null,
                group_id |-> group_id]
    IN  Ok([db EXCEPT !.items = @ \cup {row}, !.seq.items = new_id], new_id)

(* add_item up to its first commit: the INSERT. *)
insert_item(db, content_type, content_text, content_blob, preview_text, preview_blob, created_at, group_id) ==
    LET new_id == db.seq.items + 1
        row == [id |-> new_id,
                content |-> content_text,
                content_type |-> content_type,
                content_text |-> Some(content_text),
                content_blob |-> content_blob,
                preview_text |-> preview_text,
                preview_blob |-> preview_blob,
                created_at |-> created_at,
                last_used_at |-> Null,
                pinned |-> 0,
                pinned_at |-> Null,
                group_id |-> group_id]
    IN  Ok([db EXCEPT !.items = @ \cup {row}, !.seq.items = new_id], new_id)

add_item(db, content_type, content_text, content_blob, preview_text, preview_blob, created_at, group_id) ==
    LET inserted == insert_item(db, content_type, content_text, content_blob,
                                preview_text, preview_blob, created_at, group_id)
    IN  Ok(_prune_group_items(inserted.db, group_id, max_items_per_group), inserted.ret)

(* set_pinned up to its commit: the UPDATE; ret is the group_id read first. *)
update_pinned(db, item_id, pinned, now) ==
    LET row == {i \in db.items : i.id = item_id}
        group_id == IF row = {} THEN Null ELSE Some((CHOOSE i \in row : TRUE).group_id)
        pin_ts == IF pinned THEN Some(now) ELSE Null
    IN  Ok([db EXCEPT !.items =
              {IF i.id = item_id
               THEN [i EXCEPT !.pinned = IF pinned THEN 1 ELSE 0, !.pinned_at = pin_ts]
               ELSE i : i \in @}],
           group_id)

(* Mutation: unpinning does not prune. *)
Mut_set_pinned_no_prune(db, item_id, pinned, now) ==
    Ok(update_pinned(db, item_id, pinned, now).db, Null)

set_pinned(db, item_id, pinned, now) ==
    LET updated == update_pinned(db, item_id, pinned, now)
    IN  IF updated.ret # Null /\ ~pinned
        THEN Ok(_prune_group_items(updated.db, updated.ret[1], max_items_per_group), Null)
        ELSE Ok(updated.db, Null)

(* move_item_to_group up to its commit: the UPDATE. *)
update_group(db, item_id, group_id) ==
    Ok([db EXCEPT !.items =
          {IF i.id = item_id THEN [i EXCEPT !.group_id = group_id] ELSE i : i \in @}],
       Null)

(* Mutation: the destination group is not pruned. *)
Mut_move_no_prune(db, item_id, group_id) ==
    Ok(update_group(db, item_id, group_id).db, Null)

move_item_to_group(db, item_id, group_id) ==
    LET updated == update_group(db, item_id, group_id)
    IN  Ok(_prune_group_items(updated.db, group_id, max_items_per_group), Null)

(* Mutation: the UPDATE writes the row's created_at instead of ts. *)
Mut_touch_writes_created_at(db, item_id, ts) ==
    Ok([db EXCEPT !.items =
          {IF i.id = item_id THEN [i EXCEPT !.last_used_at = Some(i.created_at)] ELSE i
           : i \in @}],
       Null)

touch_item_last_used(db, item_id, ts) ==
    Ok([db EXCEPT !.items =
          {IF i.id = item_id THEN [i EXCEPT !.last_used_at = Some(ts)] ELSE i
           : i \in @}],
       Null)

(* Mutation: the UPDATE has no WHERE clause. *)
Mut_update_preview_all_rows(db, item_id, preview_text, preview_blob) ==
    IF preview_text = Null
    THEN Raise(db, "TypeError")
    ELSE Ok([db EXCEPT !.items =
               {[i EXCEPT !.preview_text = preview_text,
                          !.preview_blob = preview_blob] : i \in @}],
            Null)

update_preview(db, item_id, preview_text, preview_blob) ==
    IF preview_text = Null
    THEN Raise(db, "TypeError")
    ELSE Ok([db EXCEPT !.items =
               {IF i.id = item_id
                THEN [i EXCEPT !.preview_text = preview_text,
                               !.preview_blob = preview_blob]
                ELSE i : i \in @}],
            Null)

get_item(db, item_id) ==
    IF \E i \in db.items : i.id = item_id
    THEN Some([has_full_content |-> 1] @@ (CHOOSE i \in db.items : i.id = item_id))
    ELSE Null

(* Mutation: ORDER BY created_at DESC. *)
Mut_get_latest_item_by_created(db, group_id) ==
    LET rows == {i \in db.items : i.group_id = group_id}
        first == {i \in rows : \A j \in rows : j.created_at <= i.created_at}
    IN  IF rows = {} THEN {Null}
        ELSE {Some([has_full_content |-> 1] @@ i) : i \in first}

(* The rows get_latest_item may return: ORDER BY COALESCE(last_used_at,    *)
(* created_at) DESC LIMIT 1 leaves the choice among equally fresh rows to  *)
(* SQLite; fetchone() is None when the group has no row.                   *)
get_latest_item(db, group_id) ==
    LET rows == {i \in db.items : i.group_id = group_id}
        first == {i \in rows : \A j \in rows : Freshness(j) <= Freshness(i)}
    IN  IF rows = {} THEN {Null}
        ELSE {Some([has_full_content |-> 1] @@ i) : i \in first}

(* Mutation: unpinned rows are ordered by created_at alone. *)
Mut_OrderKeys_created_only(i) ==
    << <<Some(i.pinned), "DESC">>,
       <<IF i.pinned = 1 THEN Some(Coalesce(i.pinned_at, i.created_at)) ELSE Null, "ASC">>,
       <<IF i.pinned = 1 THEN Some(i.id) ELSE Null, "ASC">>,
       <<IF i.pinned = 0 THEN Some(i.created_at) ELSE Null, "DESC">>,
       <<IF i.pinned = 0 THEN Some(i.id) ELSE Null, "DESC">> >>

(* The ORDER BY list of list_items: one <<value, direction>> pair per      *)
(* term; a CASE without ELSE yields NULL.                                  *)
OrderKeys(i) ==
    << <<Some(i.pinned), "DESC">>,
       <<IF i.pinned = 1 THEN Some(Coalesce(i.pinned_at, i.created_at)) ELSE Null, "ASC">>,
       <<IF i.pinned = 1 THEN Some(i.id) ELSE Null, "ASC">>,
       <<IF i.pinned = 0 THEN Some(Coalesce(i.last_used_at, i.created_at)) ELSE Null, "DESC">>,
       <<IF i.pinned = 0 THEN Some(i.id) ELSE Null, "DESC">> >>

TermBefore(a, b) ==
    IF a[2] = "ASC" THEN NullableLess(a[1], b[1]) ELSE NullableLess(b[1], a[1])

ItemBefore(i, j) ==
    \E k \in 1..Len(OrderKeys(i)) :
        /\ \A m \in 1..(k - 1) : OrderKeys(i)[m][1] = OrderKeys(j)[m][1]
        /\ TermBefore(OrderKeys(i)[k], OrderKeys(j)[k])

(* list_items(group_id, None): group_id = Null lists every group. *)
list_items(db, group_id) ==
    OrderBy({i \in db.items : group_id = Null \/ i.group_id = group_id[1]}, ItemBefore)

(* Mutation: has_full_content looks at preview_blob alone. *)
Mut_SelectList_blob_only(i, previews_only) ==
    IF previews_only
    THEN [has_full_content |->
              IF i.content_type = "html" THEN 1
              ELSE IF i.preview_blob = Null THEN 1
              ELSE 0]
         @@ [i EXCEPT
               !.content_text =
                   IF i.content_type = "drawio" THEN i.content_text
                   ELSE IF i.preview_text # Null THEN i.preview_text
                   ELSE i.content_text,
               !.content_blob =
                   IF i.content_type = "html" THEN i.content_blob
                   ELSE IF i.preview_blob = Null THEN i.content_blob
                   ELSE Null]
    ELSE [has_full_content |-> 1] @@ i

(* The SELECT list of list_items for one row: with previews_only the      *)
(* content columns are the CASE expressions of lines 268-284; the          *)
(* unqualified content_text of the WHERE clause is the table column.       *)
SelectList(i, previews_only) ==
    IF previews_only
    THEN [has_full_content |->
              IF i.content_type = "html" THEN 1
              ELSE IF i.preview_blob = Null /\ i.preview_text = Null THEN 1
              ELSE 0]
         @@ [i EXCEPT
               !.content_text =
                   IF i.content_type = "drawio" THEN i.content_text
                   ELSE IF i.preview_text # Null THEN i.preview_text
                   ELSE i.content_text,
               !.content_blob =
                   IF i.content_type = "html" THEN i.content_blob
                   ELSE IF i.preview_blob = Null THEN i.content_blob
                   ELSE Null]
    ELSE [has_full_content |-> 1] @@ i

(* The case folding of the LIKE operator: the 26 ASCII letters. *)
FoldAscii(c) ==
    LET upper == "ABCDEFGHIJKLMNOPQRSTUVWXYZ"
        lower == "abcdefghijklmnopqrstuvwxyz"
    IN  IF \E k \in 1..Len(upper) : SubSeq(upper, k, k) = c
        THEN LET k == CHOOSE k \in 1..Len(upper) : SubSeq(upper, k, k) = c
             IN  SubSeq(lower, k, k)
        ELSE c

(* The LIKE operator of SQLite without ESCAPE: % matches any run of        *)
(* characters, _ matches one character, any other character matches       *)
(* itself up to the case of ASCII letters.                                 *)
RECURSIVE Like(_, _)
Like(text, pattern) ==
    IF pattern = "" THEN text = ""
    ELSE IF SubSeq(pattern, 1, 1) = "%"
    THEN Like(text, Tail(pattern)) \/ (text # "" /\ Like(Tail(text), pattern))
    ELSE /\ text # ""
         /\ \/ SubSeq(pattern, 1, 1) = "_"
            \/ FoldAscii(SubSeq(pattern, 1, 1)) = FoldAscii(SubSeq(text, 1, 1))
         /\ Like(Tail(text), Tail(pattern))

(* list_items(group_id, query, previews_only): "if query" takes None and   *)
(* the empty string for no query; a NULL content_text is LIKE nothing.     *)
select_items(db, group_id, query, previews_only) ==
    LET where(i) ==
            /\ group_id = Null \/ i.group_id = group_id[1]
            /\ \/ query = Null
               \/ query = Some("")
               \/ i.content_text # Null /\ Like(i.content_text[1], "%" \o query[1] \o "%")
        rows == OrderBy({i \in db.items : where(i)}, ItemBefore)
    IN  [k \in 1..Len(rows) |-> SelectList(rows[k], previews_only)]

----------------------------------------------------------------------------
(* Subitem operations of Storage. *)

add_subitem(db, item_id, text, icons, tag, now) ==
    LET new_id == db.seq.subitems + 1
    IN  Ok([db EXCEPT
              !.subitems = @ \cup {[id |-> new_id, item_id |-> item_id, text |-> text,
                                    icons |-> icons, tag |-> tag, created_at |-> now]},
              !.seq.subitems = new_id],
           new_id)

delete_subitem(db, subitem_id) ==
    IF subitem_id < 0 THEN Ok(db, Null)
    ELSE Ok([db EXCEPT !.subitems = {s \in @ : s.id # subitem_id}], Null)

delete_subitems_by_tag(db, item_id, tag) ==
    IF tag = "" THEN Ok(db, Null)
    ELSE Ok([db EXCEPT !.subitems =
               {s \in @ : ~(/\ s.item_id = item_id
                            /\ s.tag # Null
                            /\ Lower(s.tag[1]) = Lower(tag))}],
            Null)

(* Mutation: rows of one second come in descending id order. *)
Mut_SubitemBefore_newest_first(s, t) ==
    \/ s.created_at < t.created_at
    \/ s.created_at = t.created_at /\ s.id > t.id

SubitemBefore(s, t) ==
    \/ s.created_at < t.created_at
    \/ s.created_at = t.created_at /\ s.id < t.id

list_subitems(db, item_id) ==
    OrderBy({s \in db.subitems : s.item_id = item_id}, SubitemBefore)

----------------------------------------------------------------------------
(* Opening the store: Storage.__init__ and the schema migration. *)

StorageMaxItems(configured) ==
    IF configured # Null /\ configured[1] # 0 /\ configured[1] > 0
    THEN configured[1]
    ELSE DEFAULT_MAX_STORAGE_PER_GROUP

(* main(): int(max_items) if max_items else None *)
MainMaxItems(configured) == IF configured = 0 THEN Null ELSE Some(configured)

(* Mutation: a null position becomes 0 instead of the group id. *)
Mut_migrate_groups_position_zero(db) ==
    [db EXCEPT !.groups =
        {IF g.position = Null THEN [g EXCEPT !.position = Some(0)] ELSE g : g \in @}]

_migrate_groups_table(db) ==
    [db EXCEPT !.groups =
        {IF g.position = Null THEN [g EXCEPT !.position = Some(g.id)] ELSE g : g \in @}]

(* Mutation: the pinned_at backfill is missing. *)
Mut_migrate_no_pinned_backfill(db) ==
    [db EXCEPT !.items =
        {[i EXCEPT !.content_text = IF @ = Null THEN Some(i.content) ELSE @] : i \in @}]

_migrate_items_table(db) ==
    [db EXCEPT !.items =
        {[[i EXCEPT !.content_text = IF @ = Null THEN Some(i.content) ELSE @]
             EXCEPT !.pinned_at = IF i.pinned = 1 /\ @ = Null THEN Some(i.created_at) ELSE @]
         : i \in @}]

_init_schema(db) ==
    LET migrated == _migrate_items_table(_migrate_groups_table(db))
    IN  IF get_group_by_name(migrated, "Default") = Null
        THEN create_group(migrated, "Default").db
        ELSE migrated

----------------------------------------------------------------------------
(* Backend helpers (src/qml_backend.py).  Each returns the database it     *)
(* leaves behind together with its result.                                 *)

(* Mutation: a missing Default group is not created. *)
Mut_get_default_lookup_only(db) ==
    LET group == get_group_by_name(db, "Default")
    IN  IF group # Null THEN Ok(db, group[1].id) ELSE Ok(db, -1)

_get_default_group_id(db) ==
    LET group == get_group_by_name(db, "Default")
    IN  IF group # Null THEN Ok(db, group[1].id) ELSE create_group(db, "Default")

(* Mutation: no group counts as the Default group. *)
Mut_is_default_never(db, group_id) == FALSE

_is_default_group(db, group_id) ==
    LET group == get_group_by_name(db, "Default")
    IN  group # Null /\ group[1].id = group_id

_persist_destination_group(db, gid) ==
    set_setting(db, "destination_group_id", Str(gid)).db

_persist_current_group(db, gid) ==
    IF gid = Null THEN set_setting(db, "current_group_id", "").db
    ELSE set_setting(db, "current_group_id", Str(gid[1])).db

_load_destination_group(db) ==
    LET raw == get_setting(db, "destination_group_id", Null)
        dflt == _get_default_group_id(db)
        parsed == IF raw # Null /\ raw[1] \in IntLiterals THEN ParseInt(raw[1]) ELSE dflt.ret
        gid == IF group_exists(dflt.db, parsed) THEN parsed ELSE dflt.ret
    IN  Ok(_persist_destination_group(dflt.db, gid), gid)

_load_current_group(db) ==
    LET raw == get_setting(db, "current_group_id", Null)
        gid == IF raw # Null /\ raw[1] \in IntLiterals THEN Some(ParseInt(raw[1])) ELSE Null
    IN  IF gid # Null /\ ~group_exists(db, gid[1]) THEN Null ELSE gid

(* refresh_groups: rebuilds the group model and repairs the destination.   *)
(* ret is the destination group id afterwards.                             *)
refresh_groups(db, dest) ==
    LET dflt == _get_default_group_id(db)
    IN  IF ~group_exists(dflt.db, dest)
        THEN Ok(_persist_destination_group(dflt.db, dflt.ret), dflt.ret)
        ELSE Ok(dflt.db, dest)

(* The rows of Backend.group_model as refresh_groups builds them:          *)
(* Plugins, All, the groups called "default" in any case, the user groups. *)
IsSpecialGroup(db, g) ==
    \/ _is_default_group(db, g.id)
    \/ PyLower(g.name) = "default"

GroupModel(db) ==
    LET rows == list_groups(db)
        special == SelectSeq(rows, LAMBDA g : IsSpecialGroup(db, g))
        user == SelectSeq(rows, LAMBDA g : ~IsSpecialGroup(db, g))
        entry(g, sp) == [id |-> g.id, name |-> g.name, is_special |-> sp]
    IN  << [id |-> PLUGIN_GROUP_ID, name |-> "Plugins", is_special |-> TRUE],
           [id |-> -1, name |-> "All", is_special |-> TRUE] >>
        \o [k \in 1..Len(special) |-> entry(special[k], TRUE)]
        \o [k \in 1..Len(user) |-> entry(user[k], FALSE)]

(* GroupListModel.move_group on 0-based rows; Null when the move is refused. *)
move_group(model, from_row, to_row) ==
    LET first_user == Cardinality({k \in 1..Len(model) :
                                       \A m \in 1..k : model[m].is_special})
        without == [k \in 1..(Len(model) - 1) |->
                        IF k < from_row + 1 THEN model[k] ELSE model[k + 1]]
        moved == [k \in 1..Len(model) |->
                        IF k < to_row + 1 THEN without[k]
                        ELSE IF k = to_row + 1 THEN model[from_row + 1]
                        ELSE without[k - 1]]
    IN  IF \/ from_row = to_row
           \/ from_row < 0 \/ to_row < 0
           \/ from_row >= Len(model) \/ to_row >= Len(model)
           \/ from_row < first_user \/ to_row < first_user
        THEN Null
        ELSE Some(moved)

----------------------------------------------------------------------------
(* Backend.__init__ after Storage.__init__: the state after construction. *)

OpenStore(disk) ==
    LET schema == _init_schema(disk)
        dflt == _get_default_group_id(schema)
        dest == _load_destination_group(dflt.db)
        current == _load_current_group(dest.db)
        refreshed == refresh_groups(dest.db, dest.ret)
    IN  [db |-> refreshed.db, current |-> current, dest |-> refreshed.ret]

(* Result of a backend slot. *)
Slot(db, current, dest, raised, status) ==
    [db |-> db, current |-> current, dest |-> dest,
     outcome |-> [raised |-> raised, status |-> status]]

----------------------------------------------------------------------------
(* Backend slots for groups. *)

createGroup(db, current, dest, name) ==
    LET cleaned == Strip(name)
        created == create_group(db, cleaned)
        refreshed == refresh_groups(created.db, dest)
    IN  IF cleaned = "" THEN Slot(db, current, dest, "none", "")
        ELSE Slot(refreshed.db, current, refreshed.ret, "none",
                  IF created.err # "none" THEN "Group already exists." ELSE "")

renameGroup(db, current, dest, group_id, name) ==
    LET cleaned == Strip(name)
        renamed == rename_group(db, group_id, cleaned)
        refreshed == refresh_groups(renamed.db, dest)
    IN  IF group_id < 0 \/ cleaned = "" THEN Slot(db, current, dest, "none", "")
        ELSE IF renamed.err # "none" THEN Slot(db, current, dest, renamed.err, "")
        ELSE Slot(refreshed.db, current, refreshed.ret, "none", "")

deleteGroup(db, current, dest, group_id) ==
    LET deleted == delete_group(db, group_id).db
        current2 == IF current = Some(group_id) THEN Null ELSE current
        dflt == _get_default_group_id(deleted)
        db2 == IF dest = group_id THEN _persist_destination_group(dflt.db, dflt.ret)
               ELSE deleted
        dest2 == IF dest = group_id THEN dflt.ret ELSE dest
        refreshed == refresh_groups(db2, dest2)
    IN  IF group_id < 0 THEN Slot(db, current, dest, "none", "")
        ELSE IF _is_default_group(db, group_id)
        THEN Slot(db, current, dest, "none", "Default group cannot be deleted.")
        ELSE Slot(refreshed.db, current2, refreshed.ret, "none", "")

reorderGroups(db, current, dest, from_row, to_row) ==
    LET moved == move_group(GroupModel(db), from_row, to_row)
        kept == SelectSeq(moved[1], LAMBDA g : g.id >= 0)
        ordered_ids == [k \in 1..Len(kept) |-> kept[k].id]
        updated == update_group_positions(db, ordered_ids).db
        refreshed == refresh_groups(updated, dest)
    IN  IF from_row < 0 \/ to_row < 0 \/ moved = Null
        THEN Slot(db, current, dest, "none", "")
        ELSE Slot(refreshed.db, current, refreshed.ret, "none", "")

selectGroup(db, current, dest, group_id) ==
    LET new_gid == IF group_id = PLUGIN_GROUP_ID THEN Some(PLUGIN_GROUP_ID)
                   ELSE IF group_id < 0 THEN Null
                   ELSE Some(group_id)
    IN  IF new_gid = current THEN Slot(db, current, dest, "none", "")
        ELSE Slot(_persist_current_group(db, new_gid), new_gid, dest, "none", "")

setDestinationGroup(db, current, dest, gid) ==
    IF gid < 0 THEN Slot(db, current, dest, "none", "")
    ELSE IF ~group_exists(db, gid)
    THEN Slot(db, current, dest, "none", "Destination group no longer exists.")
    ELSE IF gid = dest THEN Slot(db, current, dest, "none", "")
    ELSE Slot(_persist_destination_group(db, gid), current, gid, "none", "")

----------------------------------------------------------------------------
(* Actions.  A call is taken only while the AUTOINCREMENT counters stay    *)
(* inside the bounds of the model.                                         *)

(* Backend helpers and slots for subitems.  icons=None is stored as the    *)
(* JSON text of the empty list.                                            *)

_replace_subitem(db, item_id, text, tag, now) ==
    LET deleted == delete_subitems_by_tag(db, item_id, tag[1])
        added == add_subitem(deleted.db, item_id, text, "[]", tag, now)
    IN  IF tag = Null \/ tag = Some("") THEN db
        ELSE IF deleted.err # "none" THEN db
        ELSE IF added.err # "none" THEN deleted.db
        ELSE added.db

_ensure_full_clip(db, item_id) == get_item(db, item_id)

_on_operation_finished(db, item_id, task, text, now) ==
    LET content == Strip(text)
        tag == IF PyLower(task) = "" THEN Null ELSE Some(PyLower(task))
    IN  IF content = "" THEN db
        ELSE IF tag # Null THEN _replace_subitem(db, item_id, content, tag, now)
        ELSE add_subitem(db, item_id, content, "[]", tag, now).db

(* utils.general.truncate_text *)
truncate_text(text, limit) ==
    IF limit <= 0 \/ Len(text) <= limit THEN text
    ELSE SubSeq(text, 1, limit) \o "..."

(* Mutation: the destination is used without looking the group up. *)
Mut_get_destination_unchecked(db, dest) == Ok(db, dest)

_get_destination_group_id(db, dest) ==
    IF dest < 0 \/ ~group_exists(db, dest)
    THEN LET dflt == _get_default_group_id(db)
         IN  Ok(_persist_destination_group(dflt.db, dflt.ret), dflt.ret)
    ELSE Ok(db, dest)

(* Mutation: a pinned latest item with the same content is replaced too. *)
Mut_process_clip_replaces_pinned(db, dest, last_clip_text, clip, now) ==
    LET d == _get_destination_group_id(db, dest)
        Store(latest_row) ==
            LET same == /\ latest_row # Null
                        /\ latest_row[1].content_type = clip.content_type
                        /\ Coalesce(latest_row[1].content_text, "") = clip.content_text
                        /\ latest_row[1].content_blob = clip.content_blob
                cleared == IF same THEN delete_item(d.db, latest_row[1].id).db ELSE d.db
                added == add_item(cleared, clip.content_type, clip.content_text,
                                  clip.content_blob, Null, clip.preview_blob, now, d.ret)
            IN  [db |-> added.db, dest |-> d.ret, last_clip_text |-> last_clip_text,
                 new_id |-> Some(added.ret)]
    IN  {Store(latest_row) : latest_row \in get_latest_item(d.db, d.ret)}

(* _process_clip for a text or an image clip: the database, destination    *)
(* and last seen text it leaves and the id add_item returned, one result   *)
(* for each row get_latest_item may return.  The text of such clips holds  *)
(* no URL and no file path, so _add_url_subitems and _add_file_subitems    *)
(* add nothing; the preview of an image is built by a later job.           *)
_process_clip(db, dest, last_clip_text, clip, now) ==
    LET Result(d, g, l, id) == [db |-> d, dest |-> g, last_clip_text |-> l, new_id |-> id]
        textual == clip.content_type \in {"text", "color"}
    IN  IF clip.content_type = "" THEN {Result(db, dest, last_clip_text, Null)}
        ELSE IF textual /\ last_clip_text = Some(clip.content_text)
        THEN {Result(db, dest, last_clip_text, Null)}
        ELSE
          LET seen == IF textual THEN Some(clip.content_text) ELSE last_clip_text
              d == _get_destination_group_id(db, dest)
              Store(latest_row) ==
                  LET same == /\ latest_row # Null
                              /\ latest_row[1].content_type = clip.content_type
                              /\ Coalesce(latest_row[1].content_text, "") = clip.content_text
                              /\ latest_row[1].content_blob = clip.content_blob
                      cleared == IF same THEN delete_item(d.db, latest_row[1].id).db ELSE d.db
                      preview_text ==
                          IF textual
                          THEN Some(truncate_text(clip.content_text, PREVIEW_TEXT_LIMIT))
                          ELSE Null
                      added == add_item(cleared, clip.content_type, clip.content_text,
                                        clip.content_blob, preview_text, clip.preview_blob,
                                        now, d.ret)
                  IN  IF same /\ latest_row[1].pinned = 1
                      THEN Result(d.db, d.ret, seen, Null)
                      ELSE Result(added.db, d.ret, seen, Some(added.ret))
          IN  {Store(latest_row) : latest_row \in get_latest_item(d.db, d.ret)}

(* _on_clipboard_changed for change number n: the change is swallowed when *)
(* the flag is set, dropped when no snapshot can be taken, and otherwise   *)
(* its snapshot is submitted to _preview_executor.                         *)
_on_clipboard_changed(cb, n, snapshot) ==
    IF cb.ignore_next_clip THEN [cb EXCEPT !.ignore_next_clip = FALSE]
    ELSE IF snapshot = Null THEN cb
    ELSE [cb EXCEPT !.futures = Append(@, [n |-> n, clip |-> snapshot[1]])]

(* _push_to_clipboard: the item is touched, the flag is set, and the clip  *)
(* is written to the clipboard unless it is an image that does not decode. *)
(* written is what the clipboard then holds, Null when nothing is written. *)
(* QImage.fromData(blob).isNull(): the bytes "png" decode, others do not.  *)
_push_to_clipboard(db, cb, clip, now) ==
    LET QImageIsNull(blob) == blob # "png"
        touched == IF clip.id > 0 THEN touch_item_last_used(db, clip.id, now).db ELSE db
        text == Coalesce(clip.content_text, "")
        image == clip.content_type = "image" /\ clip.content_blob # Null
        Written == [content_type |-> IF image THEN "image" ELSE "text",
                    content_text |-> IF image THEN "[Image]" ELSE text,
                    content_blob |-> IF image THEN clip.content_blob ELSE Null,
                    preview_blob |-> Null]
    IN  IF image
        THEN [db |-> touched,
              cb |-> [cb EXCEPT !.ignore_next_clip = TRUE],
              written |-> IF QImageIsNull(clip.content_blob[1]) THEN Null ELSE Some(Written)]
        ELSE [db |-> touched,
              cb |-> [cb EXCEPT !.ignore_next_clip = TRUE, !.last_clip_text = Some(text)],
              written |-> Some(Written)]

addNoteSubitem(db, item_id, text, now) ==
    LET note == Strip(text)
    IN  IF item_id < 0 \/ note = "" THEN db
        ELSE add_subitem(db, item_id, note, "[]", Some("note"), now).db

----------------------------------------------------------------------------
(* Threads calling the Storage methods on the shared connection.  A write  *)
(* method is run statement by statement; what one statement has written is *)
(* visible to every later statement on the connection, committed or not.   *)

Threads == {"t1", "t2"}

(* threading.RLock: free, or owned by one thread that has acquired it      *)
(* count times.                                                            *)
FreeLock == [owner |-> Null, count |-> 0]

(* Mutation: a lock that never makes a thread wait. *)
Mut_CanAcquire_always(lk, t) == TRUE

(* Mutation: threading.Lock, which its owner cannot acquire again. *)
Mut_CanAcquire_not_reentrant(lk, t) == lk.owner = Null

(* Mutation: a release that leaves the owner of the lock in place. *)
Mut_Released_keeps_owner(lk) == [lk EXCEPT !.count = @ - 1]

CanAcquire(lk, t) == lk.owner = Null \/ lk.owner = Some(t)

Acquired(lk, t) ==
    [owner |-> Some(t), count |-> IF lk.owner = Some(t) THEN lk.count + 1 ELSE 1]

Released(lk) ==
    IF lk.count <= 1 THEN FreeLock ELSE [lk EXCEPT !.count = @ - 1]

(* A call of a Storage method with its arguments; a method uses the        *)
(* arguments it has.                                                       *)
Call(name, id, gid, pinned, text, tag, ts) ==
    [name |-> name, id |-> id, gid |-> gid, pinned |-> pinned, text |-> text,
     tag |-> tag, ts |-> ts]

(* A thread outside every Storage method. *)
Idle ==
    [pc |-> "idle", op |-> Null, k |-> 0, todo |-> << >>, group |-> Null,
     stale |-> << >>, pre |-> Null, rows |-> Null]

(* The SQL statements a write method executes before its commit. *)
Statements(op) ==
    CASE op.name = "delete_item" ->
            <<"DELETE FROM subitems WHERE item_id", "DELETE FROM items WHERE id">>
      [] op.name = "delete_group" ->
            <<"DELETE FROM subitems WHERE item_id IN group",
              "DELETE FROM items WHERE group_id", "DELETE FROM groups WHERE id">>
      [] OTHER -> <<op.name>>

(* The effect of the k-th statement of a write method. *)
Execute(db, op, k) ==
    LET st == Statements(op)[k]
    IN  CASE st = "DELETE FROM subitems WHERE item_id" ->
                Ok([db EXCEPT !.subitems = {s \in @ : s.item_id # op.id}], Null)
          [] st = "DELETE FROM items WHERE id" ->
                Ok([db EXCEPT !.items = {i \in @ : i.id # op.id}], Null)
          [] st = "DELETE FROM subitems WHERE item_id IN group" ->
                Ok([db EXCEPT !.subitems =
                      {s \in @ : ~\E i \in db.items :
                                     i.group_id = op.gid /\ i.id = s.item_id}], Null)
          [] st = "DELETE FROM items WHERE group_id" ->
                Ok([db EXCEPT !.items = {i \in @ : i.group_id # op.gid}], Null)
          [] st = "DELETE FROM groups WHERE id" ->
                Ok([db EXCEPT !.groups = {g \in @ : g.id # op.gid}], Null)
          [] st = "create_group" -> create_group(db, op.text)
          [] st = "rename_group" -> rename_group(db, op.gid, op.text)
          [] st = "update_group_positions" -> update_group_positions(db, <<op.gid, op.id>>)
          [] st = "set_setting" -> set_setting(db, op.tag, op.text)
          [] st = "add_item" ->
                insert_item(db, "text", op.text, Null, Some("p"), Null, op.ts, op.gid)
          [] st = "set_pinned" -> update_pinned(db, op.id, op.pinned, op.ts)
          [] st = "move_item_to_group" -> update_group(db, op.id, op.gid)
          [] st = "touch_item_last_used" -> touch_item_last_used(db, op.id, op.ts)
          [] st = "add_subitem" -> add_subitem(db, op.id, op.text, "[]", Some(op.tag), op.ts)
          [] st = "delete_subitem" -> delete_subitem(db, op.id)
          [] st = "delete_subitems_by_tag" -> delete_subitems_by_tag(db, op.id, op.tag)
          [] st = "update_preview" -> update_preview(db, op.id, Some(op.text), Null)

(* The group a write method prunes after its commit, given what its        *)
(* statement returned; Null if it prunes none.                             *)
PruneGroup(op, ret) ==
    CASE op.name \in {"add_item", "move_item_to_group"} -> Some(op.gid)
      [] op.name = "set_pinned" -> IF ~op.pinned THEN ret ELSE Null
      [] OTHER -> Null

(* _prune_group_items up to its loop: ids[limit:]. *)
stale_ids(db, group_id, limit) ==
    LET rows == OrderBy({i \in db.items : i.group_id = group_id /\ i.pinned = 0},
                        Fresher)
    IN  IF limit <= 0 \/ Len(rows) <= limit THEN << >>
        ELSE [k \in 1..(Len(rows) - limit) |-> rows[limit + k].id]

(* The whole write method, run without interruption. *)
Apply(db, op) ==
    CASE op.name = "delete_item" -> delete_item(db, op.id)
      [] op.name = "delete_group" -> delete_group(db, op.gid)
      [] op.name = "add_item" ->
            add_item(db, "text", op.text, Null, Some("p"), Null, op.ts, op.gid)
      [] op.name = "set_pinned" -> set_pinned(db, op.id, op.pinned, op.ts)
      [] op.name = "move_item_to_group" -> move_item_to_group(db, op.id, op.gid)
      [] OTHER -> Execute(db, op, 1)

----------------------------------------------------------------------------
GroupIds == 1..MaxGroupId
ItemIds == 1..MaxItemId
SubitemIds == 1..MaxSubitemId
Times == 1..MaxTime

InBounds(db) ==
    /\ db.seq.groups <= MaxGroupId
    /\ db.seq.items <= MaxItemId
    /\ db.seq.subitems <= MaxSubitemId

SetDB(db) ==
    /\ InBounds(db)
    /\ groups' = db.groups
    /\ items' = db.items
    /\ subitems' = db.subitems
    /\ settings' = db.settings
    /\ sqlite_sequence' = db.seq

(* Backend.__init__: nothing to ignore, no text seen, no extraction       *)
(* running on _preview_executor, no clipboardExtracted signal queued.  n   *)
(* counts the clipboard changes, notify holds what the program itself has  *)
(* written while its dataChanged is still to be delivered, and stored      *)
(* lists the captures that add_item has stored with the number of their    *)
(* change.                                                                 *)
NewClipboard ==
    [ignore_next_clip |-> FALSE, last_clip_text |-> Null,
     futures |-> << >>, extracted |-> << >>,
     n |-> 0, notify |-> Null, stored |-> << >>]

(* The state a backend slot leaves behind. *)
SlotStep(r) ==
    /\ SetDB(r.db)
    /\ current_group_id' = r.current
    /\ destination_group_id' = r.dest
    /\ outcome' = r.outcome
    /\ UNCHANGED <<opened, max_items_per_group, op_worker, operation, lock, threads, clipboard>>

(* The state a direct call of a Storage method leaves behind. *)
StorageStep(r) ==
    /\ SetDB(r.db)
    /\ outcome' = [raised |-> r.err, status |-> ""]
    /\ UNCHANGED <<opened, max_items_per_group, current_group_id, destination_group_id,
                   op_worker, operation, lock, threads, clipboard>>

CreateGroup(names) ==
    \E name \in names :
        /\ opened
        /\ SlotStep(createGroup(DB, current_group_id, destination_group_id, name))

RenameGroup(ids, names) ==
    \E group_id \in ids, name \in names :
        /\ opened
        /\ SlotStep(renameGroup(DB, current_group_id, destination_group_id, group_id, name))

DeleteGroup(ids) ==
    \E group_id \in ids :
        /\ opened
        /\ SlotStep(deleteGroup(DB, current_group_id, destination_group_id, group_id))

ReorderGroups ==
    \E from_row \in 0..(MaxGroupId + 1), to_row \in 0..(MaxGroupId + 1) :
        /\ opened
        /\ SlotStep(reorderGroups(DB, current_group_id, destination_group_id,
                               from_row, to_row))

SelectGroup ==
    \E group_id \in GroupIds \cup {-1, PLUGIN_GROUP_ID} :
        /\ opened
        /\ SlotStep(selectGroup(DB, current_group_id, destination_group_id, group_id))

SetDestinationGroup ==
    \E gid \in GroupIds \cup {-1} :
        /\ opened
        /\ SlotStep(setDestinationGroup(DB, current_group_id, destination_group_id, gid))

----------------------------------------------------------------------------
(* Direct calls of the Storage item and subitem methods.  The sets name    *)
(* the argument values a specification draws from.                         *)

AddItem(types, texts, blobs, previews, times, gids) ==
    \E content_type \in types, content_text \in texts, content_blob \in blobs,
       preview \in previews, created_at \in times, group_id \in gids :
        /\ opened
        /\ StorageStep(add_item(DB, content_type, content_text, content_blob,
                                preview[1], preview[2], created_at, group_id))

(* add_item on a store that may hold as many items as the default cap     *)
(* and one more.                                                           *)
AddItemBeyondDefault(gids) ==
    \E group_id \in gids :
        \E r \in {add_item(DB, "text", "a", Null, Some("p"), Null, 1, group_id)} :
            /\ opened
            /\ sqlite_sequence.items <= DEFAULT_MAX_STORAGE_PER_GROUP
            /\ items' = r.db.items
            /\ subitems' = r.db.subitems
            /\ sqlite_sequence' = r.db.seq
            /\ outcome' = [raised |-> r.err, status |-> ""]
            /\ UNCHANGED <<opened, groups, settings, max_items_per_group,
                           current_group_id, destination_group_id, op_worker, operation,
                           lock, threads, clipboard>>

SetPinned(ids, times) ==
    \E item_id \in ids, pinned \in BOOLEAN, now \in times :
        /\ opened
        /\ StorageStep(set_pinned(DB, item_id, pinned, now))

MoveItemToGroup(ids, gids) ==
    \E item_id \in ids, group_id \in gids :
        /\ opened
        /\ StorageStep(move_item_to_group(DB, item_id, group_id))

TouchItemLastUsed(ids, times) ==
    \E item_id \in ids, ts \in times :
        /\ opened
        /\ StorageStep(touch_item_last_used(DB, item_id, ts))

DeleteItem(ids) ==
    \E item_id \in ids :
        /\ opened
        /\ StorageStep(delete_item(DB, item_id))

UpdatePreview(ids, previews) ==
    \E item_id \in ids, preview \in previews :
        /\ opened
        /\ StorageStep(update_preview(DB, item_id, preview[1], preview[2]))

AddSubitem(ids, texts, tags, times) ==
    \E item_id \in ids, text \in texts, tag \in tags, now \in times :
        /\ opened
        /\ StorageStep(add_subitem(DB, item_id, text, "[]", tag, now))

DeleteSubitem(ids) ==
    \E subitem_id \in ids :
        /\ opened
        /\ StorageStep(delete_subitem(DB, subitem_id))

DeleteSubitemsByTag(ids, tags) ==
    \E item_id \in ids, tag \in tags :
        /\ opened
        /\ StorageStep(delete_subitems_by_tag(DB, item_id, tag))

SetSetting(keys, values) ==
    \E key \in keys, value \in values :
        /\ opened
        /\ StorageStep(set_setting(DB, key, value))

UpdateGroupPositions(lists) ==
    \E ordered_ids \in lists :
        /\ opened
        /\ StorageStep(update_group_positions(DB, ordered_ids))

(* The ids of the clips the list view shows after refresh_items. *)
ListedItemIds == {i.id : i \in items}

(* Backend.__init__: _op_running and _current_operation; workers holds   *)
(* the OperationWorker threads that exist, each with the arguments it was *)
(* made with and whether it is inside run(), and signals holds the        *)
(* finishedTask / failedTask emissions queued to the GUI thread.          *)
NewOperation ==
    [op_running |-> FALSE, current_operation |-> Null,
     workers |-> [k \in 1..MaxWorkers |-> Null], signals |-> << >>]

_set_op_running(o, val) ==
    IF o.op_running = val THEN o
    ELSE [o EXCEPT !.op_running = val,
                   !.current_operation = IF val THEN @ ELSE Null]

(* A call of a backend method that raises nothing and emits status. *)
BackendStep(db, status) ==
    /\ SetDB(db)
    /\ outcome' = [raised |-> "none", status |-> status]
    /\ UNCHANGED <<opened, max_items_per_group, current_group_id, destination_group_id,
                   lock, threads, clipboard>>

ReplaceSubitem(ids, texts, tags, times) ==
    \E item_id \in ids, text \in texts, tag \in tags, now \in times :
        /\ opened
        /\ BackendStep(_replace_subitem(DB, item_id, text, tag, now), "")
        /\ UNCHANGED <<op_worker, operation>>

AddNoteSubitem(ids, texts, times) ==
    \E item_id \in ids, text \in texts, now \in times :
        /\ opened
        /\ BackendStep(addNoteSubitem(DB, item_id, text, now), "")
        /\ UNCHANGED <<op_worker, operation>>

(* runOperation starts a worker thread for a stored item unless the       *)
(* worker _op_worker refers to isRunning().                               *)
RunOperation(ids, tasks) ==
    \E item_id \in ids, task \in tasks :
        LET current_operation == IF Strip(task) = "" THEN Null ELSE Some(Strip(task))
            free == {k \in 1..MaxWorkers : operation.workers[k] = Null}
        IN  /\ opened
            /\ _ensure_full_clip(DB, item_id) # Null
            /\ ~(op_worker # Null /\ operation.workers[op_worker[1]][1].isRunning)
            /\ free # {}
            /\ \E k \in free :
                   /\ \A other \in free : k <= other
                   /\ op_worker' = Some(k)
                   /\ operation' =
                          [_set_op_running(
                               [operation EXCEPT !.current_operation = current_operation],
                               TRUE)
                           EXCEPT !.workers[k] = Some([item_id |-> item_id, task |-> task,
                                                       isRunning |-> TRUE])]
            /\ BackendStep(DB, IF current_operation # Null
                               THEN "Running " \o current_operation[1] \o "..."
                               ELSE "")

(* OperationWorker.run: the task returns its output or raises; the signal  *)
(* is queued to the GUI thread and the thread ends.                        *)
WorkerRun(texts) ==
    \E k \in 1..MaxWorkers, result \in {Some(text) : text \in texts} \cup {Null} :
        /\ operation.workers[k] # Null
        /\ operation.workers[k][1].isRunning
        /\ operation' =
               [operation EXCEPT
                    !.workers[k] = Some([@[1] EXCEPT !.isRunning = FALSE]),
                    !.signals = Append(@, [worker |-> k,
                                           item_id |-> operation.workers[k][1].item_id,
                                           task |-> operation.workers[k][1].task,
                                           text |-> result])]
        /\ UNCHANGED <<opened, groups, items, subitems, settings, sqlite_sequence,
                       max_items_per_group, current_group_id, destination_group_id,
                       outcome, op_worker, lock, threads, clipboard>>

(* The worker's finishedTask signal is delivered to the backend. *)
OperationFinished(times) ==
    \E now \in times :
        /\ opened
        /\ operation.signals # << >>
        /\ Head(operation.signals).text # Null
        /\ LET signal == Head(operation.signals)
           IN  /\ op_worker' = Null
               /\ operation' =
                      _set_op_running(
                          [operation EXCEPT !.signals = Tail(@),
                                            !.workers[signal.worker] = Null],
                          FALSE)
               /\ BackendStep(_on_operation_finished(DB, signal.item_id, signal.task,
                                                     signal.text[1], now),
                              IF operation.current_operation # Null
                              THEN operation.current_operation[1] \o " finished."
                              ELSE "")

(* The worker's failedTask signal is delivered to the backend. *)
OperationFailed ==
    /\ opened
    /\ operation.signals # << >>
    /\ Head(operation.signals).text = Null
    /\ LET signal == Head(operation.signals)
       IN  /\ op_worker' = Null
           /\ operation' =
                  _set_op_running(
                      [operation EXCEPT !.signals = Tail(@),
                                        !.workers[signal.worker] = Null],
                      FALSE)
           /\ BackendStep(DB, signal.task \o " failed: error")

(* The state a handler of the clipboard watcher leaves behind. *)
ClipStep(db, dest, cb) ==
    /\ SetDB(db)
    /\ destination_group_id' = dest
    /\ clipboard' = cb
    /\ outcome' = [raised |-> "none", status |-> ""]
    /\ UNCHANGED <<opened, max_items_per_group, current_group_id, op_worker, operation,
                   lock, threads>>

(* Another program changes the clipboard and QClipboard.dataChanged calls *)
(* _on_clipboard_changed; the dataChanged of an earlier write of the       *)
(* program itself has been delivered before.                               *)
ClipboardChanged(snapshots) ==
    \E snapshot \in snapshots :
        /\ opened
        /\ clipboard.notify = Null
        /\ clipboard.n < MaxChanges
        /\ ClipStep(DB, destination_group_id,
                    _on_clipboard_changed([clipboard EXCEPT !.n = @ + 1],
                                          clipboard.n + 1, snapshot))

(* The dataChanged of the program's own write calls _on_clipboard_changed. *)
OwnClipboardChanged ==
    /\ opened
    /\ clipboard.notify # Null
    /\ ClipStep(DB, destination_group_id,
                _on_clipboard_changed([clipboard EXCEPT !.notify = Null, !.n = @ + 1],
                                      clipboard.n + 1, clipboard.notify))

(* One of the two extractions running on _preview_executor finishes and    *)
(* its done callback emits clipboardExtracted.                             *)
ExtractionDone ==
    \E k \in 1..Len(clipboard.futures) :
        /\ opened
        /\ k <= 2
        /\ clipboard' =
               [clipboard EXCEPT
                  !.futures = SubSeq(@, 1, k - 1) \o SubSeq(@, k + 1, Len(@)),
                  !.extracted = Append(@, clipboard.futures[k])]
        /\ UNCHANGED <<opened, groups, items, subitems, settings, sqlite_sequence,
                       max_items_per_group, current_group_id, destination_group_id,
                       outcome, op_worker, operation, lock, threads>>

(* The queued clipboardExtracted signal calls _handle_clip_future. *)
HandleClipFuture(times) ==
    \E now \in times :
        /\ opened
        /\ clipboard.extracted # << >>
        /\ \E r \in _process_clip(DB, destination_group_id, clipboard.last_clip_text,
                                  Head(clipboard.extracted).clip, now) :
              ClipStep(r.db, r.dest,
                        [clipboard EXCEPT
                           !.extracted = Tail(@),
                           !.last_clip_text = r.last_clip_text,
                           !.stored = IF r.new_id = Null THEN @
                                      ELSE Append(@, [n |-> Head(clipboard.extracted).n,
                                                      id |-> r.new_id[1],
                                                      created_at |-> now])])

(* activateItem: the clip is read in full and pushed to the clipboard. *)
ActivateItem(ids, times) ==
    \E item_id \in ids, now \in times :
        \E clip \in {_ensure_full_clip(DB, item_id)} :
            /\ opened
            /\ clip # Null
            /\ clipboard.notify = Null
            /\ clipboard.n < MaxChanges
            /\ \E r \in {_push_to_clipboard(DB, clipboard, clip[1], now)} :
                   ClipStep(r.db, destination_group_id,
                            [r.cb EXCEPT !.notify = r.written])

(* The application exits: main closes the store. *)
Quit ==
    /\ opened
    /\ opened' = FALSE
    /\ current_group_id' = Null
    /\ destination_group_id' = -1
    /\ op_worker' = Null
    /\ operation' = NewOperation
    /\ outcome' = [raised |-> "none", status |-> ""]
    /\ clipboard' = NewClipboard
    /\ UNCHANGED <<groups, items, subitems, settings, sqlite_sequence,
                   max_items_per_group, lock, threads>>

(* The process is killed inside renameGroup, after rename_group has        *)
(* committed and before refresh_groups runs.                               *)
RenameGroupKilled(ids, names) ==
    \E group_id \in ids, name \in names :
        LET renamed == rename_group(DB, group_id, Strip(name))
        IN  /\ opened
            /\ Strip(name) # ""
            /\ renamed.err = "none"
            /\ SetDB(renamed.db)
            /\ opened' = FALSE
            /\ current_group_id' = Null
            /\ destination_group_id' = -1
            /\ op_worker' = Null
            /\ operation' = NewOperation
            /\ outcome' = [raised |-> "none", status |-> ""]
            /\ clipboard' = NewClipboard
            /\ UNCHANGED <<max_items_per_group, lock, threads>>

(* main starts again on the database file left on disk. *)
Open ==
    LET o == OpenStore(DB)
    IN  /\ ~opened
        /\ SetDB(o.db)
        /\ opened' = TRUE
        /\ current_group_id' = o.current
        /\ destination_group_id' = o.dest
        /\ outcome' = [raised |-> "none", status |-> ""]
        /\ clipboard' = NewClipboard
        /\ UNCHANGED <<max_items_per_group, op_worker, operation, lock, threads>>

----------------------------------------------------------------------------
(* Storage methods called from several threads.  A thread runs the calls   *)
(* of its program one after the other; a step is the entry into the        *)
(* "with self._lock" block, one SQL statement, the commit, the SELECT of   *)
(* the prune, a step of a nested delete_item, or the exit of the block.    *)

(* _replace_subitem as the calls it makes. *)
replace_calls(item_id, text, tag, ts) ==
    IF tag = "" THEN << >>
    ELSE <<Call("delete_subitems_by_tag", item_id, 0, FALSE, "", tag, ts),
           Call("add_subitem", item_id, 0, FALSE, text, tag, ts)>>

(* Methods that return before they reach the lock. *)
ReturnsEarly(op) ==
    \/ op.name = "delete_subitem" /\ op.id < 0
    \/ op.name = "delete_subitems_by_tag" /\ op.tag = ""

(* The thread after its current method has returned. *)
Returned(th) ==
    IF th.todo = << >> THEN [Idle EXCEPT !.rows = th.rows]
    ELSE [Idle EXCEPT !.pc = "call", !.op = Some(Head(th.todo)),
                      !.todo = Tail(th.todo), !.rows = th.rows]

(* The ids stay within the bounds of the model: the rows the program and  *)
(* the calls the threads have still to make insert into a table fit.      *)
Room(program) ==
    LET Starting(name) ==
            Cardinality({k \in 1..Len(program) : program[k].name = name})
        ToInsert(th, name) ==
            Cardinality({k \in 1..Len(th.todo) : th.todo[k].name = name})
            + (IF th.pc \in {"call", "stmt"} /\ th.op[1].name = name THEN 1 ELSE 0)
        ts == CHOOSE pair \in Threads \X Threads : pair[1] # pair[2]
        Inserting(name) ==
            ToInsert(threads[ts[1]], name) + ToInsert(threads[ts[2]], name)
    IN  /\ sqlite_sequence.groups + Inserting("create_group")
              + Starting("create_group") <= MaxGroupId
        /\ sqlite_sequence.items + Inserting("add_item")
              + Starting("add_item") <= MaxItemId
        /\ sqlite_sequence.subitems + Inserting("add_subitem")
              + Starting("add_subitem") <= MaxSubitemId

ThreadStep(t, th) ==
    /\ threads' = [threads EXCEPT ![t] = th]
    /\ UNCHANGED <<opened, max_items_per_group, current_group_id,
                   destination_group_id, outcome, op_worker, operation, clipboard>>

UNCHANGED_DB == UNCHANGED <<groups, items, subitems, settings, sqlite_sequence>>

(* A thread starts a program of calls. *)
Invoke(programs) ==
    \E t \in Threads, program \in programs :
        /\ opened
        /\ threads[t].pc = "idle"
        /\ program # << >>
        /\ Room(program)
        /\ ThreadStep(t, Returned([threads[t] EXCEPT !.todo = program]))
        /\ UNCHANGED lock
        /\ UNCHANGED_DB

(* A thread calls one write method and is in its "with self._lock" block: *)
(* Invoke and Enter in one step.  A thread that waits for the lock is a    *)
(* thread whose call is still to come; a call that returns before the lock *)
(* changes nothing.                                                        *)
Write(calls) ==
    \E t \in Threads, c \in calls :
        /\ opened
        /\ threads[t].pc = "idle"
        /\ Room(<<c>>)
        /\ ~ReturnsEarly(c)
        /\ CanAcquire(lock, t)
        /\ lock' = Acquired(lock, t)
        /\ ThreadStep(t, [threads[t] EXCEPT !.pc = "stmt", !.op = Some(c), !.k = 1,
                                            !.pre = Some(DB)])
        /\ UNCHANGED_DB

(* The method is entered: an early return, or "with self._lock". *)
Enter ==
    \E t \in Threads :
        LET th == threads[t]
        IN  /\ th.pc = "call"
            /\ IF ReturnsEarly(th.op[1])
               THEN /\ ThreadStep(t, Returned(th))
                    /\ UNCHANGED lock
               ELSE /\ CanAcquire(lock, t)
                    /\ lock' = Acquired(lock, t)
                    /\ ThreadStep(t, [th EXCEPT !.pc = "stmt", !.k = 1, !.pre = Some(DB)])
            /\ UNCHANGED_DB

(* One execute() of the method; an exception leaves the block. *)
Statement ==
    \E t \in Threads :
        LET th == threads[t]
            r == Execute(DB, th.op[1], th.k)
        IN  /\ th.pc = "stmt"
            /\ SetDB(r.db)
            /\ UNCHANGED lock
            /\ ThreadStep(t, IF r.err # "none" THEN [th EXCEPT !.pc = "release"]
                             ELSE IF th.k < Len(Statements(th.op[1]))
                             THEN [th EXCEPT !.k = @ + 1]
                             ELSE [th EXCEPT !.pc = "commit",
                                             !.group = PruneGroup(th.op[1], r.ret)])

(* self._conn.commit() *)
Commit ==
    \E t \in Threads :
        LET th == threads[t]
        IN  /\ th.pc = "commit"
            /\ UNCHANGED lock
            /\ UNCHANGED_DB
            /\ ThreadStep(t, [th EXCEPT !.pc = IF th.group = Null THEN "release"
                                               ELSE "prune"])

(* _prune_group_items selects the ids to delete. *)
Prune ==
    \E t \in Threads :
        LET th == threads[t]
            ids == stale_ids(DB, th.group[1], max_items_per_group)
        IN  /\ th.pc = "prune"
            /\ UNCHANGED lock
            /\ UNCHANGED_DB
            /\ ThreadStep(t, [th EXCEPT !.stale = ids,
                                        !.pc = IF ids = << >> THEN "release"
                                               ELSE "n_call"])

(* The prune calls delete_item, which enters "with self._lock" again. *)
NestedEnter ==
    \E t \in Threads :
        LET th == threads[t]
        IN  /\ th.pc = "n_call"
            /\ CanAcquire(lock, t)
            /\ lock' = Acquired(lock, t)
            /\ UNCHANGED_DB
            /\ ThreadStep(t, [th EXCEPT !.pc = "n_stmt", !.k = 1])

(* One execute() of the nested delete_item. *)
NestedStatement ==
    \E t \in Threads :
        LET th == threads[t]
            op == Call("delete_item", Head(th.stale), 0, FALSE, "", "", 0)
            r == Execute(DB, op, th.k)
        IN  /\ th.pc = "n_stmt"
            /\ SetDB(r.db)
            /\ UNCHANGED lock
            /\ ThreadStep(t, IF th.k < Len(Statements(op)) THEN [th EXCEPT !.k = @ + 1]
                             ELSE [th EXCEPT !.pc = "n_commit"])

(* The nested delete_item commits and leaves its block. *)
NestedExit ==
    \E t \in Threads :
        LET th == threads[t]
        IN  /\ th.pc = "n_commit"
            /\ lock' = Released(lock)
            /\ UNCHANGED_DB
            /\ ThreadStep(t, [th EXCEPT !.stale = Tail(@),
                                        !.pc = IF Tail(th.stale) = << >> THEN "release"
                                               ELSE "n_call"])

(* The "with self._lock" block is left and the method returns. *)
Exit ==
    \E t \in Threads :
        LET th == threads[t]
        IN  /\ th.pc = "release"
            /\ lock' = Released(lock)
            /\ UNCHANGED_DB
            /\ ThreadStep(t, Returned(th))

(* list_items is called by a thread that is in no write method; it takes   *)
(* no lock.                                                                *)
ReadItems(gids) ==
    \E t \in Threads, group_id \in gids :
        LET th == threads[t]
            listed == list_items(DB, Some(group_id))
        IN  /\ opened
            /\ th.pc = "idle"
            /\ th.rows = Null
            /\ UNCHANGED lock
            /\ UNCHANGED_DB
            /\ ThreadStep(t, [th EXCEPT !.rows =
                   Some([group_id |-> group_id,
                         ids |-> [k \in 1..Len(listed) |-> listed[k].id]])])

(* The caller drops the list it has read. *)
Forget ==
    \E t \in Threads :
        /\ threads[t].pc = "idle"
        /\ threads[t].rows # Null
        /\ UNCHANGED lock
        /\ UNCHANGED_DB
        /\ ThreadStep(t, [threads[t] EXCEPT !.rows = Null])

----------------------------------------------------------------------------
(* Specifications. *)

InitWith(caps) ==
    LET o == OpenStore(EmptyDB)
    IN  /\ opened = TRUE
        /\ groups = o.db.groups
        /\ items = o.db.items
        /\ subitems = o.db.subitems
        /\ settings = o.db.settings
        /\ sqlite_sequence = o.db.seq
        /\ \E configured \in caps :
               max_items_per_group = StorageMaxItems(MainMaxItems(configured))
        /\ current_group_id = o.current
        /\ destination_group_id = o.dest
        /\ outcome = [raised |-> "none", status |-> ""]
        /\ op_worker = Null
        /\ operation = NewOperation
        /\ lock = FreeLock
        /\ threads = [t \in Threads |-> Idle]
        /\ clipboard = NewClipboard

Init == InitWith((1..MaxConfigured))

(* The store as main opens it when config.yaml names no maxItemsPerGroup   *)
(* (a missing value and 0 are both false in "if max_items").               *)
InitDefaultCap == InitWith({0})

SpecGroups ==
    InitDefaultCap /\
    [][\/ CreateGroup(RawNames)
       \/ RenameGroup(GroupIds \cup {-1}, RawNames)
       \/ DeleteGroup(GroupIds \cup {-1})
       \/ ReorderGroups
      ]_vars

(* Retention: the item methods on a store whose groups stay as opened;     *)
(* the items are captured within one second and differ in freshness by     *)
(* their last use.                                                         *)
(* Group 1 is Default; group 2 does not exist (no foreign-key check).      *)
ItemGroups == {1, 2}
TextPreview == {<<Some("p"), Null>>}
SpecRetention ==
    Init /\
    [][\/ AddItem({"text"}, {"a"}, {Null}, TextPreview, {1}, ItemGroups)
       \/ SetPinned(ItemIds, {1})
       \/ MoveItemToGroup(ItemIds, ItemGroups)
       \/ TouchItemLastUsed(ItemIds, {MaxTime})
       \/ DeleteItem(ItemIds)
      ]_vars

(* The same with preview backfill of the first item. *)
SpecItems ==
    Init /\
    [][\/ AddItem({"text"}, {"a"}, {Null}, TextPreview, {1, MaxTime}, ItemGroups)
       \/ SetPinned(ItemIds, {1})
       \/ MoveItemToGroup(ItemIds, ItemGroups)
       \/ TouchItemLastUsed(ItemIds, {MaxTime})
       \/ DeleteItem(ItemIds)
       \/ UpdatePreview({1}, {<<Some("q"), Some("png")>>})
      ]_vars

(* Listing: items captured in the same second, pinned and used at an early *)
(* or a late time.                                                         *)
SpecListing ==
    Init /\
    [][\/ AddItem({"text"}, {"a"}, {Null}, TextPreview, {1}, ItemGroups)
       \/ SetPinned(ItemIds, {1, MaxTime})
       \/ TouchItemLastUsed(ItemIds, {MaxTime})
       \/ DeleteItem(ItemIds)
      ]_vars

(* Groups with items in them.  Items are stored under the ids 1 and 2,     *)
(* whether or not a group has that id.                                     *)
SpecStore ==
    InitDefaultCap /\
    [][\/ CreateGroup({"Default", "Work"})
       \/ RenameGroup(GroupIds, {"Default", "Work"})
       \/ DeleteGroup(GroupIds)
       \/ AddItem({"text"}, {"a"}, {Null}, TextPreview, {1}, {1, 2})
       \/ MoveItemToGroup({1}, {1, 2})
      ]_vars

(* Restarts of the program, after a normal exit and after a kill that      *)
(* leaves a renamed Default group on disk.  Notes are added to listed      *)
(* items.                                                                  *)
SpecRestart ==
    InitDefaultCap /\
    [][\/ CreateGroup({"Default", "Work"})
       \/ DeleteGroup(GroupIds)
       \/ AddItem({"text"}, {"a"}, {Null}, TextPreview, {1}, {g.id : g \in groups})
       \/ AddNoteSubitem(ListedItemIds, {"n"}, {1})
       \/ Quit
       \/ RenameGroupKilled(GroupIds, {"Default", "Work"})
       \/ Open
      ]_vars

(* Operations on items that may be deleted or evicted while they run. *)
SpecSubitems ==
    Init /\
    [][\/ AddItem({"text"}, {"a"}, {Null}, TextPreview, {1}, {1})
       \/ DeleteItem(ItemIds)
       \/ RunOperation(ItemIds, {"Translate", ""})
       \/ WorkerRun({"t1"})
       \/ OperationFinished({1})
       \/ OperationFailed
       \/ AddNoteSubitem(ListedItemIds, {"n"}, {1})
       \/ DeleteSubitem(SubitemIds)
      ]_vars

(* Tagged subitems of two items, replaced by tag. *)
SpecTags ==
    InitDefaultCap /\
    [][\/ AddItem({"text"}, {"a"}, {Null}, TextPreview, {1}, {1})
       \/ AddSubitem({1, 2}, {"x"}, {Some("Translate"), Some("É"), Some("note")}, {1})
       \/ ReplaceSubitem({1, 2}, {"t1", "t2"}, {Some("translate"), Some("TRANSLATE"), Some("é"), Null}, {1})
       \/ DeleteSubitem(SubitemIds)
       \/ DeleteSubitemsByTag({1, 2}, {"translate", ""})
      ]_vars

(* Preview backfill of the first item among pinned and unpinned items of   *)
(* two groups.                                                             *)
SpecPreview ==
    Init /\
    [][\/ AddItem({"text"}, {"a"}, {Null}, TextPreview, {1}, ItemGroups)
       \/ SetPinned(ItemIds, {1})
       \/ TouchItemLastUsed({1}, {MaxTime})
       \/ UpdatePreview({1}, {<<Some("q"), Some("png")>>})
      ]_vars

(* The content_text of a colour clip. *)
Magenta == "{\"hex\":\"#FF00FF\"}"

(* Colours with and without an image, captured early or late, stored      *)
(* while item 1 is pinned, used, moved, deleted and given a preview.       *)
SpecRoundTrip ==
    Init /\
    [][\/ AddItem({"color"}, {Magenta}, {Null, Some("png")}, TextPreview, {1, MaxTime}, {1})
       \/ SetPinned({1}, {1})
       \/ MoveItemToGroup({1}, ItemGroups)
       \/ TouchItemLastUsed({1}, {MaxTime})
       \/ DeleteItem({1})
       \/ UpdatePreview({1}, {<<Some("q"), Some("png")>>})
      ]_vars

(* Text, html and draw.io clips stored without a preview, with a preview  *)
(* text or with a preview image; the first one is given both later.        *)
SpecPreviewRead ==
    InitDefaultCap /\
    [][\/ AddItem({"text", "html", "drawio"}, {"a"}, {Some("raw")},
                  TextPreview \cup {<<Null, Null>>, <<Null, Some("png")>>}, {1}, {1})
       \/ UpdatePreview({1}, {<<Some("q"), Some("png")>>})
      ]_vars

(* Clips with the texts "a" and "Ab" in two groups, pinned and used. *)
SpecSearch ==
    InitDefaultCap /\
    [][\/ AddItem({"text"}, {"a", "Ab"}, {Null}, TextPreview, {1}, ItemGroups)
       \/ SetPinned(ItemIds, {1})
       \/ TouchItemLastUsed(ItemIds, {MaxTime})
      ]_vars

(* Settings written by direct calls and by the slots that persist the     *)
(* selected and the destination group.                                     *)
SpecSettings ==
    InitDefaultCap /\
    [][\/ SetSetting({"theme", "current_group_id"}, {"", "1", "dark"})
       \/ CreateGroup({"Work"})
       \/ SelectGroup
       \/ SetDestinationGroup
      ]_vars

(* Every list of group ids of up to MaxGroupId entries, repeated and      *)
(* missing ids included.                                                   *)
(* Groups created, renamed and deleted by the slots and ordered by direct  *)
(* calls with any list of ids.                                             *)
SpecPositions ==
    InitDefaultCap /\
    [][\/ CreateGroup({"Work", "Home"})
       \/ RenameGroup(GroupIds, {"Home"})
       \/ DeleteGroup(GroupIds)
       \/ UpdateGroupPositions((UNION {[1..n -> GroupIds] : n \in 0..MaxGroupId}))
      ]_vars

(* Two threads replace the tagged subitem of item 1, their storage calls   *)
(* interleaved.                                                            *)
SpecReplace ==
    /\ InitDefaultCap
    /\ [][\/ Invoke({replace_calls(1, text, tag, 1) : text \in {"t1", "t2"},
                                                       tag \in {"translate", "Translate"}})
           \/ Enter
           \/ Statement
           \/ Commit
           \/ Exit]_vars

(* Every write method of Storage, called from two threads: the group       *)
(* methods on group 2, the item and subitem methods on item 1, in a store  *)
(* that keeps one unpinned item per group.  Renaming group 2 to Default    *)
(* raises; the setting and the preview are written with the value they     *)
(* have.                                                                   *)
WriteCalls ==
    {Call("create_group", 0, 0, FALSE, "Work", "", 0),
     Call("rename_group", 0, 2, FALSE, "Default", "", 0),
     Call("delete_group", 0, 2, FALSE, "", "", 0),
     Call("update_group_positions", 1, 2, FALSE, "", "", 0),
     Call("set_setting", 0, 0, FALSE, "1", "destination_group_id", 0),
     Call("add_item", 0, 1, FALSE, "a", "", 1),
     Call("set_pinned", 1, 0, TRUE, "", "", 1),
     Call("set_pinned", 1, 0, FALSE, "", "", 1),
     Call("move_item_to_group", 1, 1, FALSE, "", "", 0),
     Call("touch_item_last_used", 1, 0, FALSE, "", "", MaxTime),
     Call("delete_item", 1, 0, FALSE, "", "", 0),
     Call("add_subitem", 1, 0, FALSE, "x", "note", 1),
     Call("delete_subitem", 1, 0, FALSE, "", "", 0),
     Call("delete_subitems_by_tag", 1, 0, FALSE, "", "note", 0),
     Call("update_preview", 1, 0, FALSE, "p", "", 0)}

(* maxItemsPerGroup: 1 in config.yaml. *)
InitCapOne == InitWith({1})

SpecWriters ==
    /\ InitCapOne
    /\ [][\/ Write(WriteCalls)
           \/ Statement
           \/ Commit
           \/ Prune
           \/ NestedEnter
           \/ NestedStatement
           \/ NestedExit
           \/ Exit]_vars

(* A thread lists group 1 while the other thread is inside add_item,       *)
(* set_pinned or delete_item.                                              *)
SpecReaders ==
    /\ InitCapOne
    /\ [][\/ Write({Call("add_item", 0, 1, FALSE, "a", "", 1),
                     Call("set_pinned", 1, 0, TRUE, "", "", 1),
                     Call("set_pinned", 1, 0, FALSE, "", "", 1),
                     Call("delete_item", 1, 0, FALSE, "", "", 0)})
           \/ Statement
           \/ Commit
           \/ Prune
           \/ NestedEnter
           \/ NestedStatement
           \/ NestedExit
           \/ Exit
           \/ ReadItems({1})
           \/ Forget]_vars

(* Two threads call the methods that prune, one call at a time.  The       *)
(* scheduler is fair: a thread that can run a step runs it, and a thread   *)
(* that waits for the lock gets it if it is free again and again.          *)
Running(t) ==
    /\ Statement \/ Commit \/ Prune \/ NestedStatement \/ NestedExit \/ Exit
    /\ threads'[t] # threads[t]

Acquiring(t) ==
    /\ Enter \/ NestedEnter
    /\ threads'[t] # threads[t]

SpecProgress ==
    /\ InitCapOne
    /\ [][\/ Invoke({<<Call("add_item", 0, 1, FALSE, "a", "", 1)>>,
                      <<Call("set_pinned", 1, 0, TRUE, "", "", 1)>>,
                      <<Call("set_pinned", 1, 0, FALSE, "", "", 1)>>,
                      <<Call("move_item_to_group", 1, 1, FALSE, "", "", 0)>>})
           \/ Enter
           \/ Statement
           \/ Commit
           \/ Prune
           \/ NestedEnter
           \/ NestedStatement
           \/ NestedExit
           \/ Exit]_vars
    /\ \A t \in Threads : WF_vars(Running(t)) /\ SF_vars(Acquiring(t))

(* A database file written by a version whose items table had no          *)
(* content_text, last_used_at and pinned_at columns and whose groups had   *)
(* no position: up to two items of group 1, pinned or not.                 *)
LegacyDisks ==
    {[EmptyDB EXCEPT
        !.groups = {[id |-> 1, name |-> "Default", position |-> Null]},
        !.items = {[id |-> id, content |-> "a", content_type |-> "text",
                    content_text |-> Null, content_blob |-> Null,
                    preview_text |-> Null, preview_blob |-> Null,
                    created_at |-> 1, last_used_at |-> Null, pinned |-> pins[id],
                    pinned_at |-> Null, group_id |-> 1] : id \in DOMAIN pins},
        !.seq = [groups |-> 1, items |-> Len(pins), subitems |-> 0]]
     : pins \in {<<0>>, <<1>>, <<0, 0>>, <<0, 1>>, <<1, 0>>, <<1, 1>>}}

(* The program is not running; a legacy file is on disk. *)
InitLegacy ==
    /\ opened = FALSE
    /\ \E disk \in LegacyDisks :
           /\ groups = disk.groups
           /\ items = disk.items
           /\ subitems = disk.subitems
           /\ settings = disk.settings
           /\ sqlite_sequence = disk.seq
    /\ \E configured \in (1..MaxConfigured) :
           max_items_per_group = StorageMaxItems(MainMaxItems(configured))
    /\ current_group_id = Null
    /\ destination_group_id = -1
    /\ outcome = [raised |-> "none", status |-> ""]
    /\ op_worker = Null
    /\ operation = NewOperation
    /\ lock = FreeLock
    /\ threads = [t \in Threads |-> Idle]
    /\ clipboard = NewClipboard

(* The program is started on the legacy file; items are added and pinned   *)
(* at a later time; a kill inside renameGroup leaves the file without a    *)
(* group named "Default".                                                  *)
SpecLegacy ==
    /\ InitLegacy
    /\ [][\/ Open
           \/ Quit
           \/ RenameGroupKilled({1}, {"Work"})
           \/ AddItem({"text"}, {"a"}, {Null}, TextPreview, {MaxTime}, {1})
           \/ SetPinned(ItemIds, {MaxTime})]_vars

(* Subitems are added to two items and deleted one by one; the clock that *)
(* stamps created_at never reads less than a stamp it has given.           *)
SpecSubitemOrder ==
    /\ InitDefaultCap
    /\ [][\/ \E now \in Times :
                /\ \A s \in subitems : s.created_at <= now
                /\ AddSubitem({1, 2}, {"x", "y"}, {Null, Some("t")}, {now})
           \/ DeleteSubitem(SubitemIds)]_vars

(* What the watcher extracts from the clipboard: a text or an image. *)
Clip(content_type, content_text, content_blob) ==
    [content_type |-> content_type, content_text |-> content_text,
     content_blob |-> content_blob, preview_blob |-> Null]

Clips == {Clip("text", "a", Null), Clip("image", "[Image]", Some("png"))}

(* Clips are captured into the Default group while its items are pinned,  *)
(* given notes and deleted.                                                *)
SpecDedup ==
    /\ InitDefaultCap
    /\ [][\/ SetPinned(ItemIds, {1})
          \/ DeleteItem(ItemIds)
          \/ AddNoteSubitem(ListedItemIds, {"n"}, {1})
          \/ ClipboardChanged({Some(c) : c \in Clips})
          \/ ExtractionDone
          \/ HandleClipFuture({1})]_vars

(* Clips are captured into the destination group while groups are created *)
(* and deleted, by the backend and by a direct call of delete_group, and   *)
(* the destination is chosen.                                              *)
SpecCapture ==
    /\ InitDefaultCap
    /\ [][\/ CreateGroup({"Work"})
          \/ DeleteGroup(GroupIds)
          \/ \E group_id \in GroupIds : opened /\ StorageStep(delete_group(DB, group_id))
          \/ SetDestinationGroup
          \/ ClipboardChanged({Some(Clip("text", "a", Null)), Null})
          \/ ExtractionDone
          \/ HandleClipFuture({1})]_vars

(* The watcher and activateItem: texts and images are copied in other      *)
(* programs, stored clips are put back on the clipboard; one stored image  *)
(* has bytes that QImage.fromData does not decode.                         *)
SpecClipboard ==
    /\ InitDefaultCap
    /\ [][\/ AddItem({"image"}, {"[Image]"}, {Some("bytes")}, {<<Null, Null>>}, {1}, {1})
          \/ ClipboardChanged({Some(c) : c \in Clips})
          \/ OwnClipboardChanged
          \/ ExtractionDone
          \/ HandleClipFuture({1})
          \/ ActivateItem(ItemIds, {1})]_vars

(* config.yaml names a maxItemsPerGroup of 0 or -1. *)
InitNonPositiveCap == InitWith({0, -1})

(* Items are added to group 1 one after the other; the first can be       *)
(* pinned and unpinned while the store is small.                           *)
SpecUncapped ==
    /\ InitNonPositiveCap
    /\ [][\/ AddItemBeyondDefault({1})
           \/ SetPinned({1}, {1})]_vars

(* Items are moved between the groups of the store, Default and, once     *)
(* created, Work, each of which keeps one unpinned item.  Item 1 can be    *)
(* used, pinned and given notes.                                           *)
SpecMove ==
    /\ InitCapOne
    /\ [][\/ CreateGroup({"Work"})
           \/ AddItem({"text"}, {"a"}, {Null}, TextPreview, {1}, {g.id : g \in groups})
           \/ MoveItemToGroup(ItemIds, {g.id : g \in groups})
           \/ TouchItemLastUsed({1}, {MaxTime})
           \/ SetPinned({1}, {1})
           \/ AddNoteSubitem(ListedItemIds \cap {1}, {"n"}, {1})]_vars

----------------------------------------------------------------------------
(* Retention properties. *)

Unpinned(its, g) == {i \in its : i.group_id = g /\ i.pinned = 0}
IdsOf(rows) == {r.id : r \in rows}

(* C1: after every call of addItem, setPinned, moveItemToGroup,            *)
(* touchItemLastUsed, deleteItem and updatePreview, every group holds at   *)
(* most max_items_per_group unpinned items.                                *)
C1_RetentionInvariant ==
    \A g \in {i.group_id : i \in items} \cup ItemGroups :
        Cardinality(Unpinned(items, g)) <= max_items_per_group

(* A group is full, holds a pinned item besides, and an item that was      *)
(* inserted is gone.                                                       *)
C1_Witness ==
    \E g \in ItemGroups :
        /\ Cardinality(Unpinned(items, g)) = max_items_per_group
        /\ \E i \in items : i.group_id = g /\ i.pinned = 1
        /\ sqlite_sequence.items > Cardinality(items)

(* C2: a pinned item is never removed by retention pruning.  In every      *)
(* step, an item that is pinned before the step is still stored after it,  *)
(* unless the step is deleteItem on that item or the setPinned(false) that *)
(* unpins it; and with cap 2, a group holding pinned A and unpinned B      *)
(* holds exactly A, C, D after C and D are inserted.                       *)
C2_ScenarioB ==
    max_items_per_group = 2 =>
        \A g \in ItemGroups : \A a, b \in items :
            ( /\ {i \in items : i.group_id = g} = {a, b}
              /\ a.pinned = 1 /\ b.pinned = 0 ) =>
            \A tc, td \in Times :
                (Coalesce(b.last_used_at, b.created_at) <= tc /\ tc <= td) =>
                LET c == add_item(DB, "text", "c", Null, Null, Null, tc, g)
                    d == add_item(c.db, "text", "d", Null, Null, Null, td, g)
                IN  IdsOf({i \in d.db.items : i.group_id = g}) = {a.id, c.ret, d.ret}

C2_PinnedSurvives ==
    \A p \in items : p.pinned = 1 =>
        \/ \E q \in items' : q.id = p.id
        \/ items' = delete_item(DB, p.id).db.items
        \/ \E now \in Times : items' = set_pinned(DB, p.id, FALSE, now).db.items

C2_PinnedNeverPruned == [](C2_ScenarioB) /\ [][C2_PinnedSurvives]_vars

(* The oldest item is pinned in a full group out of which an item has gone. *)
C2_Witness ==
    \E p \in items :
        /\ p.id = 1 /\ p.pinned = 1
        /\ Cardinality(Unpinned(items, p.group_id)) = max_items_per_group
        /\ sqlite_sequence.items > Cardinality(items)
        /\ \A i \in items : i.group_id = p.group_id

(* The prunes the Storage methods run from the current state: the database *)
(* handed to _prune_group_items and the group it is called for.            *)
PruneCalls ==
    {[mid |-> insert_item(DB, "text", "a", Null, Null, Null, t, g).db, g |-> g]
        : t \in Times, g \in ItemGroups}
    \cup {[mid |-> update_pinned(DB, i.id, FALSE, 1).db, g |-> i.group_id] : i \in items}
    \cup {[mid |-> update_group(DB, i.id, g).db, g |-> g] : i \in items, g \in ItemGroups}

KeyPair(i) ==
    <<IF i.last_used_at = Null THEN i.created_at ELSE i.last_used_at[1], i.id>>

PairGreater(x, y) == x[1] > y[1] \/ (x[1] = y[1] /\ x[2] > y[2])

Evicted(call) ==
    call.mid.items \ _prune_group_items(call.mid, call.g, max_items_per_group).items

C3_Exact(call) ==
    LET post == _prune_group_items(call.mid, call.g, max_items_per_group)
        unpinned == Unpinned(call.mid.items, call.g)
        n == Cardinality(unpinned)
    IN  /\ post.items \subseteq call.mid.items
        /\ n <= max_items_per_group => post = call.mid
        /\ n > max_items_per_group =>
            /\ Cardinality(Evicted(call)) = n - max_items_per_group
            /\ Evicted(call) \subseteq unpinned
            /\ \A e \in Evicted(call), s \in unpinned \ Evicted(call) :
                   PairGreater(KeyPair(s), KeyPair(e))

C3_ScenarioA ==
    max_items_per_group = 2 =>
        \A g \in ItemGroups :
            {i \in items : i.group_id = g} = {} =>
            \A ta, tb, tc \in 1..3 :
                (ta <= tb /\ tb <= tc) =>
                LET a == add_item(DB, "text", "a", Null, Null, Null, ta, g)
                    b == add_item(a.db, "text", "b", Null, Null, Null, tb, g)
                    c == add_item(b.db, "text", "c", Null, Null, Null, tc, g)
                IN  IdsOf({i \in c.db.items : i.group_id = g}) = {b.ret, c.ret}

(* C3: a prune of a group with n > C unpinned items deletes exactly the    *)
(* n - C unpinned items of the group that are smallest in                  *)
(* (COALESCE(last_used_at, created_at), id), and deletes nothing when      *)
(* n <= C; with cap 2, inserting A, B, C into an empty group at increasing *)
(* timestamps leaves B and C.                                              *)
C3_PruneEvictsStalest ==
    /\ \A call \in PruneCalls : C3_Exact(call)
    /\ C3_ScenarioA

(* A prune evicts an item although a surviving unpinned item of the group  *)
(* has a smaller id.                                                       *)
C3_Witness ==
    \E call \in PruneCalls :
        \E e \in Evicted(call), s \in Unpinned(call.mid.items, call.g) \ Evicted(call) :
            e.id > s.id

----------------------------------------------------------------------------
(* Listing properties. *)

GroupFilters == {Null} \cup {Some(g) : g \in ItemGroups}

C4_Ordered(filter) ==
    LET rows == list_items(DB, filter)
    IN  /\ SeqRange(rows) = {i \in items : filter = Null \/ i.group_id = filter[1]}
        /\ Len(rows) = Cardinality(SeqRange(rows))
        /\ \A k, m \in 1..Len(rows) : k < m =>
            LET r == rows[k]
                t == rows[m]
            IN  /\ ~(r.pinned = 0 /\ t.pinned = 1)
                /\ (r.pinned = 1 /\ t.pinned = 1) =>
                     /\ r.pinned_at # Null /\ t.pinned_at # Null
                     /\ PairGreater(<<t.pinned_at[1], t.id>>, <<r.pinned_at[1], r.id>>)
                /\ (r.pinned = 0 /\ t.pinned = 0) =>
                     PairGreater(KeyPair(r), KeyPair(t))

----------------------------------------------------------------------------
(* Cascade integrity. *)

(* C5: every stored subitem's item_id is the id of a stored item. *)
C5_NoOrphanSubitems == \A s \in subitems : s.item_id \in IdsOf(items)

(* C6: every stored item's group_id is the id of a stored group. *)
C6_NoOrphanItems == \A i \in items : i.group_id \in IdsOf(groups)

----------------------------------------------------------------------------
(* Group properties. *)

DefaultGroups(gs) == {g \in gs : g.name = "Default"}

(* C7: in every state reached through the backend's createGroup,           *)
(* renameGroup, deleteGroup and reorderGroups (update_group_positions),     *)
(* exactly one group is named "Default".                                   *)
C7_ExactlyOneDefault == Cardinality(DefaultGroups(groups)) = 1

(* The first group was renamed and a new Default group took its place. *)
C7_Witness ==
    /\ \E g \in groups : g.id = 1 /\ g.name # "Default"
    /\ \E g \in groups : g.id # 1 /\ g.name = "Default"
    /\ \E g, h \in groups : g.position # h.position /\ (g.id < h.id) # NullableLess(g.position, h.position)

C8_DeleteDefaultNoOp ==
    opened =>
        \A g \in DefaultGroups(groups) :
            LET r == deleteGroup(DB, current_group_id, destination_group_id, g.id)
            IN  /\ r.db = DB
                /\ r.current = current_group_id
                /\ r.dest = destination_group_id
                /\ r.outcome.status = "Default group cannot be deleted."

C8_OpenCreatesDefault ==
    (~opened /\ opened') =>
        /\ Cardinality(DefaultGroups(groups')) = 1
        /\ groups \subseteq groups'
        /\ DefaultGroups(groups) = {} => Cardinality(groups') = Cardinality(groups) + 1
        /\ items' = items
        /\ subitems' = subitems

C9_NamesUnique ==
    \A g, h \in groups : (g.name = h.name \/ g.id = h.id) => g = h

C9_CreateDuplicateFails ==
    \A name \in RawNames :
        (\E g \in groups : g.name = Strip(name)) =>
            /\ create_group(DB, Strip(name)) = Raise(DB, "IntegrityError")
            /\ createGroup(DB, current_group_id, destination_group_id, name)
                 = Slot(DB, current_group_id, destination_group_id, "none",
                        "Group already exists.")

C9_RenameDuplicateFails ==
    \A g, h \in groups, name \in RawNames :
        (g.id # h.id /\ h.name = Strip(name)) =>
            /\ rename_group(DB, g.id, Strip(name)) = Raise(DB, "IntegrityError")
            /\ renameGroup(DB, current_group_id, destination_group_id, g.id, name)
                 = Slot(DB, current_group_id, destination_group_id, "IntegrityError", "")

(* C9: no two groups share a name; create_group and rename_group with a    *)
(* name that another group has raise sqlite3.IntegrityError and leave the  *)
(* database (groups with id, name and position, items, everything else)    *)
(* as it was; the createGroup slot then reports "Group already exists.",   *)
(* the renameGroup slot lets the exception out.                            *)
C9_UniqueGroupNames ==
    /\ C9_NamesUnique
    /\ opened => (C9_CreateDuplicateFails /\ C9_RenameDuplicateFails)

(* renameGroup has just failed on a duplicate name in a store that holds   *)
(* items and two groups.                                                   *)
C9_Witness ==
    /\ outcome.raised = "IntegrityError"
    /\ items # {}
    /\ Cardinality(groups) = 2

----------------------------------------------------------------------------
(* Subitem tags. *)

(* Two tags are the same up to the case of their letters. *)
SameTagIgnoringCase(a, b) == PyLower(a) = PyLower(b)

Tagged(subs, item_id, tag) ==
    {s \in subs : s.item_id = item_id /\ s.tag # Null /\ SameTagIgnoringCase(s.tag[1], tag)}

C10_Replaced(before, after, item_id, tag, text) ==
    /\ Cardinality(Tagged(after.subitems, item_id, tag)) = 1
    /\ \A s \in Tagged(after.subitems, item_id, tag) : s.text = text
    /\ after.subitems \ Tagged(after.subitems, item_id, tag)
         = before.subitems \ Tagged(before.subitems, item_id, tag)

(* C10: after one replace-by-tag on an item with a non-empty tag, and      *)
(* after a second one with the same tag, the item has exactly one subitem  *)
(* whose tag is that tag up to case, with the text of the last call, and   *)
(* all other subitems are as before.                                       *)
C10_TagReplace ==
    \A item_id \in {1, 2}, tag \in {Some("translate"), Some("TRANSLATE"), Some("é"), Null} \ {Null}, first \in {"t1", "t2"},
       second \in {"t1", "t2"} :
        LET once == _replace_subitem(DB, item_id, first, tag, MaxTime)
            twice == _replace_subitem(once, item_id, second, tag, MaxTime)
        IN  /\ C10_Replaced(DB, once, item_id, tag[1], first)
            /\ C10_Replaced(DB, twice, item_id, tag[1], second)

----------------------------------------------------------------------------
(* Storage called from several threads. *)

AllIdle == \A t \in Threads : threads[t].pc = "idle"

(* C11: when every replace-by-tag on item 1 that was started on some       *)
(* thread has returned, item 1 has exactly one subitem with the tag.       *)
C11_ReplaceAtomic ==
    AllIdle /\ sqlite_sequence.subitems > 0
        => Cardinality(Tagged(subitems, 1, "translate")) = 1

(* A thread between the first statement and the commit of a write method. *)
InWrite(t) == threads[t].pc \in {"stmt", "commit", "n_stmt", "n_commit"}

(* A thread in the prune a write method has triggered. *)
InPrune(t) == threads[t].pc \in {"prune", "n_call", "n_stmt", "n_commit"}

(* C12: at most one thread at a time is between the first statement and    *)
(* the commit of a write method, and a thread that runs the prune          *)
(* triggered by addItem, setPinned(false) or moveItemToGroup holds the     *)
(* lock it took when it entered that method.                               *)
C12_WriteSerialization ==
    /\ \A t \in Threads, u \in Threads : InWrite(t) /\ InWrite(u) => t = u
    /\ \A t \in Threads : InWrite(t) \/ InPrune(t) => lock.owner = Some(t)
    /\ \A t \in Threads :
           InPrune(t) => threads[t].op[1].name \in
                            {"add_item", "set_pinned", "move_item_to_group"}

(* A thread deletes a stale item inside its add_item, the lock acquired    *)
(* twice, while the other thread is outside every write method.            *)
C12_Witness ==
    \E t \in Threads, u \in Threads :
        /\ threads[t].pc = "n_stmt"
        /\ threads[t].op[1].name = "add_item"
        /\ lock = [owner |-> Some(t), count |-> 2]
        /\ u # t
        /\ threads[u].pc = "idle"

(* The ids list_items returns for a group. *)
ListedIds(db, group_id) ==
    LET listed == list_items(db, Some(group_id))
    IN  [k \in 1..Len(listed) |-> listed[k].id]

(* C13: what list_items returns while a write method runs on the other     *)
(* thread is what it returns in the state before that method was entered   *)
(* or in the state after the whole method.                                 *)
C13_ReadConsistency ==
    [][\A t \in Threads :
          threads[t].rows = Null /\ threads'[t].rows # Null =>
              LET r == threads'[t].rows[1]
                  writers == {u \in Threads : threads[u].pre # Null}
              IN  IF writers = {} THEN r.ids = ListedIds(DB, r.group_id)
                  ELSE \E u \in writers :
                           r.ids \in {ListedIds(threads[u].pre[1], r.group_id),
                                      ListedIds(Apply(threads[u].pre[1],
                                                      threads[u].op[1]).db,
                                                r.group_id)}]_vars

(* C14: every call of addItem, setPinned or moveItemToGroup a thread has    *)
(* started returns, with the lock no longer owned by that thread.          *)
C14_WritesComplete ==
    \A t \in Threads :
        threads[t].pc # "idle" ~> (threads[t].pc = "idle" /\ lock.owner # Some(t))

(* A thread is about to acquire the lock again for the delete_item of its  *)
(* prune while the other thread waits for the lock.                        *)
C14_Witness ==
    \E t \in Threads, u \in Threads :
        /\ threads[t].pc = "n_call"
        /\ lock = [owner |-> Some(t), count |-> 1]
        /\ threads[u].pc = "call"

----------------------------------------------------------------------------
(* Pin timestamps. *)

PinConsistent(i) == (i.pinned_at # Null) <=> (i.pinned = 1)

(* C15: in every state of the running program, also right after a legacy   *)
(* database has been opened, an item's pinned_at is non-null iff it is     *)
(* pinned; an item addItem has stored is unpinned with no pinned_at,       *)
(* setPinned(id, true) sets pinned_at to the time of the call and          *)
(* setPinned(id, false) clears it.                                         *)
C15_PinnedAtIffPinned ==
    opened =>
        /\ \A i \in items : PinConsistent(i)
        /\ \A i \in add_item(DB, "text", "a", Null, Some("p"), Null, MaxTime, 1).db.items :
               i.id = sqlite_sequence.items + 1 => i.pinned = 0 /\ i.pinned_at = Null
        /\ \A id \in ItemIds, now \in Times :
               /\ \A i \in set_pinned(DB, id, TRUE, now).db.items :
                      /\ PinConsistent(i)
                      /\ i.id = id => i.pinned = 1 /\ i.pinned_at = Some(now)
               /\ \A i \in set_pinned(DB, id, FALSE, now).db.items :
                      /\ PinConsistent(i)
                      /\ i.id = id => i.pinned = 0 /\ i.pinned_at = Null

(* A legacy database with a pinned row has just been opened: the row has   *)
(* its creation time as pinned_at.                                         *)
C15_Witness ==
    /\ opened
    /\ \E i \in items : i.pinned = 1 /\ i.pinned_at = Some(i.created_at)
                          /\ i.created_at < MaxTime
    /\ \E i \in items : i.pinned = 0 /\ i.pinned_at = Null

----------------------------------------------------------------------------
(* The cap. *)

(* C16: in a store created with a non-positive cap, where items are only   *)
(* added, pinned and unpinned, every item ever added is still stored.      *)
C16_NonPositiveCapNeverEvicts ==
    \A id \in 1..sqlite_sequence.items : \E i \in items : i.id = id

----------------------------------------------------------------------------
(* Calls with ids that name nothing. *)

MissingItemIds == (ItemIds \cup {-1}) \ IdsOf(items)
MissingGroupIds == (GroupIds \cup {-1}) \ IdsOf(groups)
MissingSubitemIds == (SubitemIds \cup {-1}) \ IdsOf(subitems)

(* The call raised nothing and the store is as it was. *)
NoOp(r) == r.err = "none" /\ r.db = DB

(* C17: every mutation called with an item, group or subitem id that names *)
(* nothing raises no error and leaves groups, items, subitems and settings *)
(* unchanged; getItem on a missing id returns nothing, listItems and       *)
(* listSubitems return an empty sequence.                                  *)
C17_NotFoundIsNoOp ==
    /\ \A id \in MissingItemIds :
           /\ \A pinned \in BOOLEAN : NoOp(set_pinned(DB, id, pinned, MaxTime))
           /\ NoOp(touch_item_last_used(DB, id, MaxTime))
           /\ \A g \in IdsOf(groups) : NoOp(move_item_to_group(DB, id, g))
           /\ NoOp(delete_item(DB, id))
           /\ NoOp(update_preview(DB, id, Some("q"), Some("png")))
           /\ NoOp(delete_subitems_by_tag(DB, id, "note"))
           /\ NoOp(add_subitem(DB, id, "x", "[]", Some("note"), MaxTime))
           /\ get_item(DB, id) = Null
           /\ list_subitems(DB, id) = << >>
    /\ \A g \in MissingGroupIds :
           /\ NoOp(rename_group(DB, g, "Home"))
           /\ NoOp(delete_group(DB, g))
           /\ \A id \in IdsOf(items) : NoOp(move_item_to_group(DB, id, g))
           /\ NoOp(add_item(DB, "text", "a", Null, Some("p"), Null, MaxTime, g))
           /\ list_items(DB, Some(g)) = << >>
    /\ \A id \in MissingSubitemIds : NoOp(delete_subitem(DB, id))

----------------------------------------------------------------------------
(* Use of an item. *)

(* The id of the first unpinned item list_items returns, if there is one. *)
FirstUnpinned(db, filter) ==
    LET rows == list_items(db, filter)
        unpinned == {k \in 1..Len(rows) : rows[k].pinned = 0}
    IN  IF unpinned = {} THEN Null
        ELSE Some(rows[CHOOSE k \in unpinned : \A m \in unpinned : k <= m].id)

(* After touchItemLastUsed(i.id, ts) item i is the first unpinned item of  *)
(* its group and of the all-groups view.                                   *)
TouchedIsFirst(i, ts) ==
    LET touched == touch_item_last_used(DB, i.id, ts).db
    IN  /\ FirstUnpinned(touched, Some(i.group_id)) = Some(i.id)
        /\ FirstUnpinned(touched, Null) = Some(i.id)

(* No other item was created or last used after ts. *)
OthersNotLater(i, ts) ==
    \A j \in items \ {i} :
        j.created_at <= ts /\ (j.last_used_at # Null => j.last_used_at[1] <= ts)

(* Every other unpinned item is less fresh than ts, or as fresh with a     *)
(* smaller id.                                                             *)
OthersStaler(i, ts) ==
    \A j \in {k \in items : k.pinned = 0} :
        j.id # i.id => \/ Freshness(j) < ts
                       \/ Freshness(j) = ts /\ j.id < i.id

----------------------------------------------------------------------------
(* Pinning and the cap. *)

(* setPinned(i.id, true) deletes nothing, and the pinned item is neither   *)
(* counted nor evicted by the next prune of its group by addItem.          *)
PinExempts(i, now) ==
    LET pinned == set_pinned(DB, i.id, TRUE, now).db
        added == add_item(pinned, "text", "a", Null, Some("p"), Null, now, i.group_id).db
    IN  /\ IdsOf(pinned.items) = IdsOf(items)
        /\ pinned.subitems = subitems
        /\ i.id \notin IdsOf(Unpinned(pinned.items, i.group_id))
        /\ i.id \in IdsOf(added.items)
        /\ Cardinality(Unpinned(added.items, i.group_id)) <= max_items_per_group

(* setPinned(i.id, false) keeps, of the unpinned items of the group with i *)
(* among them, the max_items_per_group freshest by                         *)
(* (COALESCE(last_used_at, created_at), id), and every other item.         *)
UnpinPrunes(i, now) ==
    LET updated == update_pinned(DB, i.id, FALSE, now).db
        unpinned == set_pinned(DB, i.id, FALSE, now).db
        candidates == Unpinned(updated.items, i.group_id)
        kept == {a \in candidates :
                    Cardinality({b \in candidates : Fresher(b, a)}) < max_items_per_group}
    IN  /\ Cardinality(Unpinned(unpinned.items, i.group_id)) <= max_items_per_group
        /\ i.id \in IdsOf(candidates)
        /\ unpinned.items = (updated.items \ candidates) \cup kept
        /\ unpinned.subitems =
              {s \in subitems : s.item_id \notin IdsOf(candidates \ kept)}

(* C19: setPinned(id, true) never deletes an item and takes the item out   *)
(* of the count of the cap; setPinned(id, false) prunes the item's group   *)
(* before it returns, the item competing by its freshness and id like any  *)
(* other unpinned item, so that the group holds at most C unpinned items.  *)
C19_PinExemption ==
    \A i \in items, now \in Times : PinExempts(i, now) /\ UnpinPrunes(i, now)

(* A group holds a pinned item and as many unpinned items as the cap       *)
(* allows; unpinning the pinned item evicts an item.                       *)
C19_Witness ==
    \E i \in items :
        /\ i.pinned = 1
        /\ Cardinality(Unpinned(items, i.group_id)) = max_items_per_group
        /\ Cardinality(set_pinned(DB, i.id, FALSE, MaxTime).db.items) < Cardinality(items)

----------------------------------------------------------------------------
(* Moving an item. *)

SubitemsOf(subs, id) == {s \in subs : s.item_id = id}

(* The moved item is stored in group g, otherwise as it was, with the      *)
(* subitems it had.                                                        *)
MovedIntact(i, g, after) ==
    /\ [i EXCEPT !.group_id = g] \in after.items
    /\ SubitemsOf(after.subitems, i.id) = SubitemsOf(subitems, i.id)

(* Only unpinned items of group g are deleted, with their subitems, so     *)
(* that g holds at most max_items_per_group unpinned items; every other    *)
(* item, subitem, group and setting is as it was.                          *)
MovePrunesOnly(i, g, after) ==
    LET updated == update_group(DB, i.id, g).db
        deleted == updated.items \ after.items
    IN  /\ after.items \subseteq updated.items
        /\ \A j \in deleted : j.group_id = g /\ j.pinned = 0
        /\ \A j \in items : j.id # i.id /\ j.group_id # g => j \in after.items
        /\ Cardinality(Unpinned(after.items, g)) <= max_items_per_group
        /\ after.subitems = {s \in subitems : s.item_id \notin IdsOf(deleted)}
        /\ after.groups = groups
        /\ after.settings = settings

(* The prune of g has deleted the moved item, with its subitems: it is     *)
(* unpinned and max_items_per_group unpinned items of g are fresher.       *)
MovedEvicted(i, g, after) ==
    /\ i.id \notin IdsOf(after.items)
    /\ SubitemsOf(after.subitems, i.id) = {}
    /\ i.pinned = 0
    /\ Cardinality({j \in Unpinned(after.items, g) : Fresher(j, i)}) = max_items_per_group

(* C20, as stated: moveItemToGroup(id, g) on an existing item and an       *)
(* existing group sets the item's group to g, leaves its other fields and  *)
(* its subitems unchanged, prunes only group g and deletes no item of      *)
(* another group.                                                          *)
C20_MoveKeepsItem ==
    \A i \in items, g \in IdsOf(groups) :
        LET after == move_item_to_group(DB, i.id, g).db
        IN  MovedIntact(i, g, after) /\ MovePrunesOnly(i, g, after)

(* C20, amended: the same, unless the prune of g evicts the moved item     *)
(* itself, which is then deleted with its subitems.                        *)
C20_MoveFrame ==
    \A i \in items, g \in IdsOf(groups) :
        LET after == move_item_to_group(DB, i.id, g).db
        IN  /\ MovedIntact(i, g, after) \/ MovedEvicted(i, g, after)
            /\ MovePrunesOnly(i, g, after)

(* An item with a note can be moved to the other group, which is full:     *)
(* the move evicts an item of that group and keeps the moved item and its  *)
(* note.                                                                   *)
C20_Witness ==
    \E i \in items, g \in IdsOf(groups) :
        LET after == move_item_to_group(DB, i.id, g).db
        IN  /\ g # i.group_id
            /\ SubitemsOf(subitems, i.id) # {}
            /\ MovedIntact(i, g, after)
            /\ \E j \in items : j.group_id = g /\ j.id \notin IdsOf(after.items)

----------------------------------------------------------------------------
(* Preview backfill. *)

IdSeq(rows) == [k \in 1..Len(rows) |-> rows[k].id]

(* The previews update_preview is called with: text and image, text alone, *)
(* an empty text, and no text.                                             *)
PreviewArgs ==
    {<<Some("q"), Some("png")>>, <<Some("q"), Null>>, <<Some(""), Null>>,
     <<Null, Some("png")>>}

(* The ids list_items returns for each group and for all groups. *)
Listings ==
    [g \in {Null} \cup {Some(h) : h \in ItemGroups} |-> IdSeq(list_items(DB, g))]

(* Between the store and "after", only the two preview columns of item_id  *)
(* differ and every listing is as in "listed".                             *)
PreviewFrame(item_id, after, listed) ==
    /\ after.groups = groups
    /\ after.subitems = subitems
    /\ after.settings = settings
    /\ after.seq = sqlite_sequence
    /\ IdsOf(after.items) = IdsOf(items)
    /\ Cardinality(after.items) = Cardinality(items)
    /\ \A j \in after.items :
           \E i \in items :
               /\ i.id = j.id
               /\ IF i.id = item_id
                  THEN [j EXCEPT !.preview_text = i.preview_text,
                                 !.preview_blob = i.preview_blob] = i
                  ELSE j = i
    /\ \A g \in DOMAIN listed : IdSeq(list_items(after, g)) = listed[g]

(* C21: update_preview changes only preview_text and preview_blob of the   *)
(* item with the given id: every other column of that item, every other    *)
(* item, the groups, subitems and settings are unchanged, no item is       *)
(* evicted, and list_items returns the same ids in the same order for      *)
(* every group and for all groups; with a preview text the two columns     *)
(* hold the given values afterwards.                                       *)
C21_UpdatePreviewFrame ==
    \A listed \in {Listings}, id \in ItemIds \cup {-1}, p \in PreviewArgs :
        LET r == update_preview(DB, id, p[1], p[2])
        IN  /\ r.db = DB \/ PreviewFrame(id, r.db, listed)
            /\ p[1] # Null =>
                   \A j \in r.db.items :
                       j.id = id => j.preview_text = p[1] /\ j.preview_blob = p[2]

(* The preview of item 1 was rebuilt while a pinned and an unpinned item   *)
(* are stored with it.                                                     *)
C21_Witness ==
    /\ \E i \in items : i.id = 1 /\ i.preview_text = Some("q")
    /\ \E i, j \in items : i.id # 1 /\ j.id # 1 /\ i.pinned = 1 /\ j.pinned = 0

----------------------------------------------------------------------------
(* Round trip of add_item and get_item. *)

(* The arguments add_item is called with. *)
AddArgs ==
    [content_type : {"text", "color"},
     content_text : {"", Magenta},
     content_blob : {Null, Some("png")},
     preview : TextPreview \cup {<<Null, Null>>},
     created_at : Times,
     group_id : ItemGroups]

(* The record get_item returns for an item inserted with the arguments a   *)
(* under the id new_id and not used since.                                 *)
Inserted(a, new_id) ==
    [id |-> new_id,
     content |-> a.content_text,
     content_type |-> a.content_type,
     content_text |-> Some(a.content_text),
     content_blob |-> a.content_blob,
     preview_text |-> a.preview[1],
     preview_blob |-> a.preview[2],
     created_at |-> a.created_at,
     last_used_at |-> Null,
     pinned |-> 0,
     pinned_at |-> Null,
     group_id |-> a.group_id,
     has_full_content |-> 1]

(* add_item returns an id under which get_item finds the inserted values,  *)
(* or nothing when the prune of add_item has evicted the new item.         *)
ReadBack(a) ==
    LET r == add_item(DB, a.content_type, a.content_text, a.content_blob,
                      a.preview[1], a.preview[2], a.created_at, a.group_id)
        got == get_item(r.db, r.ret)
    IN  /\ r.err = "none"
        /\ got # Null => got[1] = Inserted(a, r.ret)
        /\ got = Null => Cardinality(Unpinned(items, a.group_id)) >= max_items_per_group

(* The stores the calls on an item other than i lead to: "exact" by calls  *)
(* that prune nothing, "pruned" by calls that end with a prune.            *)
OtherCalls(i) ==
    [exact |->
        UNION {{set_pinned(DB, j, TRUE, MaxTime).db,
                touch_item_last_used(DB, j, MaxTime).db,
                delete_item(DB, j).db,
                update_preview(DB, j, Some("q"), Some("png")).db,
                add_subitem(DB, j, "x", "[]", Some("note"), MaxTime).db,
                delete_subitems_by_tag(DB, j, "note").db}
               : j \in (ItemIds \cup {-1}) \ {i.id}},
     pruned |->
        UNION {{set_pinned(DB, j, FALSE, MaxTime).db}
               \cup {move_item_to_group(DB, j, g).db : g \in ItemGroups}
               : j \in (ItemIds \cup {-1}) \ {i.id}}
        \cup {add_item(DB, "text", "a", Null, Null, Null, t, g).db
              : t \in Times, g \in ItemGroups}]

(* C22: get_item on the id add_item returned yields the inserted           *)
(* content_type, content_text, content_blob, created_at and group_id with  *)
(* pinned = 0, pinned_at and last_used_at NULL and has_full_content = 1,   *)
(* unless the item was evicted; and a call on another item leaves what     *)
(* get_item returns for a stored item as it is, or evicts the item if it   *)
(* is unpinned and the call ends with a prune.                             *)
C22_AddGetRoundTrip ==
    /\ \A a \in AddArgs : ReadBack(a)
    /\ \A i \in items :
           \A calls \in {OtherCalls(i)} :
               /\ \A after \in calls.exact : get_item(after, i.id) = get_item(DB, i.id)
               /\ \A after \in calls.pruned :
                      \/ get_item(after, i.id) = get_item(DB, i.id)
                      \/ get_item(after, i.id) = Null /\ i.pinned = 0

(* A colour inserted after item 1 reads back as inserted although item 1   *)
(* was pinned, used and given a new preview since.                         *)
C22_Witness ==
    /\ \E i \in items :
           /\ i.id = 1
           /\ i.pinned = 1
           /\ i.last_used_at # Null
           /\ i.preview_text = Some("q")
    /\ \E id \in ItemIds \ {1}, a \in AddArgs :
           /\ a.content_text = Magenta
           /\ a.content_blob # Null
           /\ get_item(DB, id) = Some(Inserted(a, id))

----------------------------------------------------------------------------
(* Reading previews. *)

(* What list_items with previews_only returns in the row r for the stored  *)
(* item i.                                                                 *)
PreviewRow(i, r) ==
    /\ r.id = i.id
    /\ r.content_text =
           IF i.content_type = "drawio" \/ i.preview_text = Null
           THEN i.content_text
           ELSE i.preview_text
    /\ r.content_blob =
           IF i.content_type = "html" \/ i.preview_blob = Null
           THEN i.content_blob
           ELSE Null
    /\ r.has_full_content = 1 <=>
           \/ i.content_type = "html"
           \/ i.preview_text = Null /\ i.preview_blob = Null
    /\ r.has_full_content \in {0, 1}

FullRow(i, r) ==
    /\ r.id = i.id
    /\ r.content_text = i.content_text
    /\ r.content_blob = i.content_blob
    /\ r.has_full_content = 1

(* C23: with previews_only list_items returns as content_text the full     *)
(* text of a drawio item and otherwise the preview text if there is one,   *)
(* else the full text; as content_blob the full blob of an html item and   *)
(* of an item without preview_blob, else NULL; and has_full_content = 1    *)
(* for html and for an item with neither preview, else 0.  Without         *)
(* previews_only every row has the full text and blob and                  *)
(* has_full_content = 1.                                                   *)
C23_PreviewsOnlyRules ==
    \A g \in {Null, Some(1)} :
        \A stored \in {list_items(DB, g)},
           shown \in {select_items(DB, g, Null, TRUE)},
           full \in {select_items(DB, g, Null, FALSE)} :
            /\ Len(shown) = Len(stored)
            /\ Len(full) = Len(stored)
            /\ \A k \in 1..Len(stored) :
                   /\ PreviewRow(stored[k], shown[k])
                   /\ FullRow(stored[k], full[k])

(* A text clip with a preview text only, an html clip with a preview, a    *)
(* draw.io clip with a preview text and a clip with both previews are      *)
(* listed.                                                                 *)
C23_Witness ==
    /\ \E i \in items :
           i.content_type = "text" /\ i.preview_text # Null /\ i.preview_blob = Null
    /\ \E i \in items : i.content_type = "html" /\ i.preview_blob # Null
    /\ \E i \in items : i.content_type = "drawio" /\ i.preview_text # Null
    /\ \E i \in items : i.preview_text = Some("q") /\ i.preview_blob = Some("png")

----------------------------------------------------------------------------
(* Filtering. *)

(* q is a substring of text, character by character. *)
Contains(text, q) ==
    \E k \in 0..(Len(text) - Len(q)) : SubSeq(text, k + 1, k + Len(q)) = q

Queries == {"a", "A", "b", "Ab", "_", "%"}

TextOf(id) == (CHOOSE i \in items : i.id = id).content_text[1]

(* C24: list_items with a group id returns exactly the items of that group *)
(* and with no group id the items of all groups; with a query it returns   *)
(* exactly the items whose content_text contains the query as a            *)
(* case-sensitive substring, every character taken literally, in the       *)
(* order they have without the query.                                      *)
C24_ListItemsFiltering ==
    \A g \in {Null} \cup {Some(h) : h \in ItemGroups} :
        \A stored \in {IdSeq(select_items(DB, g, Null, FALSE))} :
            /\ {stored[k] : k \in 1..Len(stored)} =
                   {i.id : i \in {j \in items : g = Null \/ j.group_id = g[1]}}
            /\ Len(stored) = Cardinality({j \in items : g = Null \/ j.group_id = g[1]})
            /\ \A q \in Queries :
                   IdSeq(select_items(DB, g, Some(q), FALSE)) =
                       SelectSeq(stored, LAMBDA id : Contains(TextOf(id), q))

----------------------------------------------------------------------------
(* Settings. *)

SettingKeys == {"theme", "current_group_id", "destination_group_id", "font"}
SettingValues == {"", "1", "dark", "light"}
SettingDefaults == {Null, Some("light")}

(* get_setting after set_setting(key, value): the value for key, and for   *)
(* every other key what get_setting returned before.                       *)
LastWriteWins(key, value) ==
    LET after == set_setting(DB, key, value).db
    IN  /\ set_setting(DB, key, value).err = "none"
        /\ \A d \in SettingDefaults :
               /\ get_setting(after, key, d) = Some(value)
               /\ \A other \in SettingKeys \ {key} :
                      get_setting(after, other, d) = get_setting(DB, other, d)
        /\ DOMAIN after.settings = DOMAIN settings \cup {key}
        /\ after.groups = groups
        /\ after.items = items
        /\ after.subitems = subitems

(* In every state get_setting of a key without an entry returns the       *)
(* default, and set_setting is followed by LastWriteWins.                  *)
C25_StateRule ==
    /\ \A key \in SettingKeys, value \in SettingValues : LastWriteWins(key, value)
    /\ \A key \in SettingKeys \ DOMAIN settings, d \in SettingDefaults :
           get_setting(DB, key, d) = d

(* C25: get_setting(k, d) after set_setting(k, v) returns v, whatever was  *)
(* stored for k before, and returns d for a key without an entry;          *)
(* set_setting adds no entry for a key that has one and changes the value  *)
(* of no other key; a stored key keeps its entry in every step.            *)
C25_SettingsLastWriteWins ==
    [](C25_StateRule) /\ [][DOMAIN settings \subseteq DOMAIN settings']_vars

(* A key was written twice with different values while another key is     *)
(* stored.                                                                 *)
C25_Witness ==
    /\ "theme" \in DOMAIN settings
    /\ "current_group_id" \in DOMAIN settings
    /\ "destination_group_id" \in DOMAIN settings
    /\ settings["theme"] = "dark"
    /\ settings["current_group_id"] = ""

----------------------------------------------------------------------------
(* Positions of groups. *)

(* The group create_group has added is the last one list_groups returns    *)
(* and its position is greater than that of every group stored before.     *)
SortsLast(r) ==
    \A listed \in {list_groups(r.db)} :
        /\ Len(listed) = Cardinality(groups) + 1
        /\ listed[Len(listed)].id = r.ret
        /\ r.ret \notin IdsOf(groups)
        /\ \A g \in groups : NullableLess(g.position, listed[Len(listed)].position)

(* C26: create_group, when it succeeds, gives the new group a position     *)
(* greater than the position of every stored group, so that the new group  *)
(* is the last element of list_groups (position ascending, then id         *)
(* ascending), whatever groups were created, renamed, deleted and          *)
(* reordered before.                                                       *)
C26_NewGroupSortsLast ==
    \A name \in {"Work", "Home", "New"} :
        \A r \in {create_group(DB, name)} :
            r.err = "none" => SortsLast(r)

(* Two groups share a position and the newest group is behind both. *)
C26_Witness ==
    /\ \E g, h \in groups : g.id # h.id /\ g.position = h.position
    /\ \E g \in groups :
           /\ g.id = sqlite_sequence.groups
           /\ \A h \in groups \ {g} : NullableLess(h.position, g.position)

(* ids is a list of all stored group ids, each once. *)
IsPermutation(ids) ==
    /\ {ids[k] : k \in 1..Len(ids)} = IdsOf(groups)
    /\ Len(ids) = Cardinality(groups)

(* The groups after update_group_positions(ids). *)
Repositioned(ids, after) ==
    /\ {<<g.id, g.name>> : g \in after.groups} = {<<g.id, g.name>> : g \in groups}
    /\ Cardinality(after.groups) = Cardinality(groups)
    /\ \A g \in after.groups :
           IF \E k \in 1..Len(ids) : ids[k] = g.id
           THEN \E k \in 1..Len(ids) : ids[k] = g.id /\ g.position = Some(k)
           ELSE g \in groups
    /\ after.items = items
    /\ after.subitems = subitems
    /\ after.settings = settings
    /\ after.seq = sqlite_sequence
    /\ IsPermutation(ids) => IdSeq(list_groups(after)) = ids

(* C27: update_group_positions(ordered_ids) sets the position of each      *)
(* listed group to the 1-based place of its id in the list, leaves the     *)
(* position of every group not listed and the id and name of every group   *)
(* unchanged, and after a call with a permutation of all group ids         *)
(* list_groups returns the groups in the order of the list.                *)
C27_UpdateGroupPositions ==
    \A ids \in (UNION {[1..n -> GroupIds] : n \in 0..MaxGroupId}) :
        \A r \in {update_group_positions(DB, ids)} :
            r.err = "none" /\ Repositioned(ids, r.db)

(* Three groups listed in an order that is not the order of their ids,     *)
(* after a call that named all of them.                                    *)
C27_Witness ==
    /\ Cardinality(groups) = 3
    /\ {g.position : g \in groups} = {Some(1), Some(2), Some(3)}
    /\ \E g, h \in groups : g.id < h.id /\ NullableLess(h.position, g.position)

----------------------------------------------------------------------------
(* Item ids. *)

(* created_at is older than the freshness of limit unpinned items of the   *)
(* group.                                                                  *)
OlderThanKept(created_at, group_id, limit) ==
    Cardinality({i \in Unpinned(items, group_id) : Freshness(i) > created_at}) >= limit

(* add_item returns the id after the largest one ever given out, also      *)
(* when its prune deletes the new item at once.                            *)
ReturnsNextId(created_at, group_id) ==
    \A r \in {add_item(DB, "text", "a", Null, Null, Null, created_at, group_id)} :
        /\ r.err = "none"
        /\ r.ret = sqlite_sequence.items + 1
        /\ r.db.seq.items = r.ret
        /\ \A i \in items : i.id < r.ret
        /\ OlderThanKept(created_at, group_id, max_items_per_group) =>
               get_item(r.db, r.ret) = Null

(* No id is larger than the counter; add_item returns the counter plus     *)
(* one; the delete methods leave the counter as it is.                     *)
C28_StateRule ==
    /\ \A i \in items : i.id <= sqlite_sequence.items
    /\ \A created_at \in Times, group_id \in ItemGroups :
           ReturnsNextId(created_at, group_id)
    /\ \A id \in ItemIds : delete_item(DB, id).db.seq = sqlite_sequence
    /\ \A g \in ItemGroups : delete_group(DB, g).db.seq = sqlite_sequence

(* The counter never decreases and an item that appears has an id above    *)
(* the counter of the state before.                                        *)
C28_StepRule ==
    /\ sqlite_sequence'.items >= sqlite_sequence.items
    /\ \A i \in items' : i.id \notin IdsOf(items) => i.id > sqlite_sequence.items

(* C28: every add_item returns an id greater than every id an earlier      *)
(* add_item returned; ids are not reused after delete_item, delete_group   *)
(* or an eviction; and add_item returns the new id also when its prune     *)
(* deletes the new item at once (created_at older than the freshness of    *)
(* the C freshest unpinned items of the full group), get_item on that id   *)
(* being absent.                                                           *)
C28_ItemIdsMonotonic == [](C28_StateRule) /\ [][C28_StepRule]_vars

(* The third add_item returned 3 and its item was evicted by the call      *)
(* itself; item 1 is gone too.                                             *)
C28_Witness ==
    /\ sqlite_sequence.items = 3
    /\ IdsOf(items) = {2}

----------------------------------------------------------------------------
(* The latest item of a group. *)

(* row is a stored item of the group, as fresh as any item of the group,   *)
(* returned with its full content.                                         *)
IsLatest(row, group_id) ==
    \E i \in items :
        /\ i.group_id = group_id
        /\ row = [has_full_content |-> 1] @@ i
        /\ row.content_text = i.content_text
        /\ row.content_blob = i.content_blob
        /\ \A j \in items : j.group_id = group_id => Freshness(j) <= Freshness(i)

(* C29: get_latest_item(group_id) returns an item of the group whose       *)
(* COALESCE(last_used_at, created_at) is the largest among the items of    *)
(* the group, pinned or not, with its full content and                     *)
(* has_full_content = 1, and returns nothing exactly when the group has    *)
(* no item.                                                                *)
C29_LatestItem ==
    \A g \in ItemGroups \cup {-1} :
        /\ get_latest_item(DB, g) # {}
        /\ \A r \in get_latest_item(DB, g) :
               /\ r = Null <=> ~ \E i \in items : i.group_id = g
               /\ r # Null => IsLatest(r[1], g)

(* A pinned item that was used is the latest of a group that also holds    *)
(* an unpinned item with a larger id.                                      *)
C29_Witness ==
    \E i, j \in items :
        /\ i.group_id = j.group_id
        /\ i.pinned = 1
        /\ j.pinned = 0
        /\ i.id < j.id
        /\ get_latest_item(DB, i.group_id) = {Some([has_full_content |-> 1] @@ i)}

----------------------------------------------------------------------------
(* Durable states. *)

(* No thread is between a statement and the commit that follows it: the    *)
(* store is as the last commit left it, which is what a crash leaves.      *)
Committed ==
    \A t \in Threads :
        /\ threads[t].pc \notin {"commit", "n_commit"}
        /\ threads[t].pc \in {"stmt", "n_stmt"} => threads[t].k = 1

(* The rows a delete method is about to commit as deleted are all gone. *)
DeleteComplete(t) ==
    LET th == threads[t]
    IN  /\ th.pc = "commit" /\ th.op[1].name = "delete_item" =>
               /\ th.op[1].id \notin IdsOf(items)
               /\ SubitemsOf(subitems, th.op[1].id) = {}
        /\ th.pc = "commit" /\ th.op[1].name = "delete_group" =>
               /\ th.op[1].gid \notin IdsOf(groups)
               /\ \A i \in items : i.group_id # th.op[1].gid
        /\ th.pc = "n_commit" =>
               /\ Head(th.stale) \notin IdsOf(items)
               /\ SubitemsOf(subitems, Head(th.stale)) = {}

DataModelInvariants ==
    /\ \A s \in subitems : s.item_id \in IdsOf(items)
    /\ \A i \in items : i.group_id \in IdsOf(groups)
    /\ \A g, h \in groups : g.name = h.name => g.id = h.id
    /\ \A i \in items : PinConsistent(i)

(* C30: every state a commit has made durable, which is the state found    *)
(* after a crash at any moment, has no subitem without its item, no item   *)
(* without its group, no two groups of one name and pinned_at non-null iff *)
(* pinned; delete_item commits the deletion of the item and of its         *)
(* subitems together, delete_group that of the group, its items and their  *)
(* subitems.                                                               *)
C30_CrashConsistency ==
    /\ Committed => DataModelInvariants
    /\ \A t \in Threads : DeleteComplete(t)

----------------------------------------------------------------------------
(* Opening a database file: Storage.__init__ runs _init_schema on it. *)

(* The file was written by this version of the engine: no column that the  *)
(* migration fills is null.                                                *)
EngineProduced ==
    /\ \A g \in groups : g.position # Null
    /\ \A i \in items : i.content_text # Null /\ (i.pinned = 1 => i.pinned_at # Null)

(* The row an existing group or item becomes when only its missing values  *)
(* are filled.                                                             *)
FilledGroup(g) == IF g.position = Null THEN [g EXCEPT !.position = Some(g.id)] ELSE g

FilledItem(i) ==
    [id |-> i.id, content |-> i.content, content_type |-> i.content_type,
     content_text |-> IF i.content_text = Null THEN Some(i.content) ELSE i.content_text,
     content_blob |-> i.content_blob,
     preview_text |-> i.preview_text, preview_blob |-> i.preview_blob,
     created_at |-> i.created_at, last_used_at |-> i.last_used_at,
     pinned |-> i.pinned,
     pinned_at |-> IF i.pinned = 1 /\ i.pinned_at = Null
                   THEN Some(i.created_at) ELSE i.pinned_at,
     group_id |-> i.group_id]

OpeningIsAdditive(o) ==
    /\ o.items = {FilledItem(i) : i \in items}
    /\ o.subitems = subitems
    /\ o.settings = settings
    /\ {FilledGroup(g) : g \in groups} \subseteq o.groups
    /\ IF DefaultGroups(groups) # {}
       THEN o.groups = {FilledGroup(g) : g \in groups}
       ELSE \E d \in o.groups :
               /\ d.name = "Default"
               /\ d.id \notin IdsOf(groups)
               /\ o.groups = {FilledGroup(g) : g \in groups} \cup {d}

(* C31: initializing the engine on a database file removes no group, item, *)
(* subitem or setting; it only fills missing values (a null position       *)
(* becomes the group id, a null content_text the legacy content, a null    *)
(* pinned_at of a pinned row its created_at) and creates the group         *)
(* "Default" when the file has none; initializing a second time changes    *)
(* nothing; on a file written by the engine that has a group "Default" it  *)
(* changes nothing at all.                                                 *)
C31_OpeningAdditiveIdempotent ==
    \A o \in {_init_schema(DB)} :
        /\ OpeningIsAdditive(o)
        /\ _init_schema(o) = o
        /\ (EngineProduced /\ DefaultGroups(groups) # {}) => o = DB

(* C31 as stated: on every file written by the engine, closing and         *)
(* reopening yields the same state.                                        *)
C31_ReopenSameState == EngineProduced => _init_schema(DB) = DB

(* A closed file on which the migration has filled the pinned_at of a      *)
(* legacy pinned item and whose group "Default" has since been renamed.    *)
C31_Witness ==
    /\ ~opened
    /\ EngineProduced
    /\ DefaultGroups(groups) = {}
    /\ \E i \in items : i.pinned = 1 /\ i.pinned_at = Some(i.created_at) /\ i.created_at < MaxTime

----------------------------------------------------------------------------
(* The subitems of an item in list order. *)

(* rows without the row of the given id, order kept. *)
WithoutId(rows, id) == SelectSeq(rows, LAMBDA s : s.id # id)

C32_StateRule ==
    \A item_id \in ItemIds :
        \A rows \in {list_subitems(DB, item_id)} :
            /\ {rows[k] : k \in 1..Len(rows)} = SubitemsOf(subitems, item_id)
            /\ Len(rows) = Cardinality(SubitemsOf(subitems, item_id))
            /\ \A j, k \in 1..Len(rows) :
                   j < k => \/ rows[j].created_at < rows[k].created_at
                            \/ /\ rows[j].created_at = rows[k].created_at
                               /\ rows[j].id < rows[k].id

C32_StepRule ==
    \A s \in subitems' \ subitems :
        \A rows \in {list_subitems(DB', s.item_id)} :
            /\ rows[Len(rows)] = s
            /\ WithoutId(rows, s.id) = list_subitems(DB, s.item_id)

(* C32: list_subitems(item_id) returns exactly the subitems of that item,  *)
(* each once, ordered by created_at ascending and within one second by id  *)
(* ascending; with a clock that does not go back, a subitem that           *)
(* add_subitem creates is the last row of its item and the rows before it  *)
(* keep their order.                                                       *)
C32_ListSubitemsOrder == [](C32_StateRule) /\ [][C32_StepRule]_vars

(* An item with two subitems stamped in the same second and another item   *)
(* with none: the rows come in the order of creation.                      *)
C32_Witness ==
    /\ \E s, t \in subitems :
           /\ s.item_id = t.item_id
           /\ s.created_at = t.created_at
           /\ s.id < t.id
           /\ list_subitems(DB, s.item_id) = <<s, t>>
    /\ \E item_id \in {1, 2} : list_subitems(DB, item_id) = << >>

----------------------------------------------------------------------------
(* Rows of a previews_only listing that are flagged as full. *)

(* C33: in list_items(None, None, previews_only=True) every row with       *)
(* has_full_content = 1 has the content_text and the content_blob that     *)
(* get_item returns for its id, the row _ensure_full_clip hands on         *)
(* without reading the item again.                                         *)
C33_FlaggedFullIsFull ==
    \A shown \in {select_items(DB, Null, Null, TRUE)} :
        \A k \in 1..Len(shown) :
            shown[k].has_full_content = 1 =>
                \A full \in {get_item(DB, shown[k].id)} :
                    /\ full # Null
                    /\ shown[k].content_text = full[1].content_text
                    /\ shown[k].content_blob = full[1].content_blob

----------------------------------------------------------------------------
(* Captures whose content the latest item of the destination already has. *)

CaptureClips == Clips \cup {Clip("text", "b", Null)}

SameContent(row, clip) ==
    /\ row # Null
    /\ row[1].content_type = clip.content_type
    /\ row[1].content_text = Some(clip.content_text)
    /\ row[1].content_blob = clip.content_blob

(* r stores the clip as item r.new_id of group g of the database before. *)
Captured(before, r, clip, g, removed) ==
    /\ r.new_id # Null
    /\ r.new_id[1] \notin IdsOf(before.items)
    /\ \E new \in r.db.items :
           /\ new.id = r.new_id[1]
           /\ new.group_id = g
           /\ new.pinned = 0
           /\ new.content_type = clip.content_type
           /\ new.content_text = Some(clip.content_text)
           /\ new.content_blob = clip.content_blob
           /\ r.db.items = {i \in before.items : i.id \notin removed} \cup {new}
    /\ r.db.subitems = {s \in before.subitems : s.item_id \notin removed}

(* What _process_clip may do when the row is the latest of group g. *)
Deduplicated(before, r, clip, g, row) ==
    IF ~SameContent(row, clip) THEN Captured(before, r, clip, g, {})
    ELSE IF row[1].pinned = 1
    THEN /\ r.new_id = Null
         /\ r.db.items = before.items
         /\ r.db.subitems = before.subitems
    ELSE /\ Captured(before, r, clip, g, {row[1].id})
         /\ Cardinality({i \in r.db.items : i.group_id = g})
                = Cardinality({i \in before.items : i.group_id = g})

DedupRule(clips) ==
    \A clip \in clips :
        \A d \in {_get_destination_group_id(DB, destination_group_id)} :
            \A results \in {_process_clip(DB, destination_group_id,
                                          clipboard.last_clip_text, clip, MaxTime)} :
                /\ \A r \in results :
                       /\ \E row \in get_latest_item(d.db, d.ret) :
                              Deduplicated(d.db, r, clip, d.ret, row)
                       /\ \A i \in items : i.pinned = 1 => i \in r.db.items
                /\ \A row \in get_latest_item(d.db, d.ret) :
                       \E r \in results : Deduplicated(d.db, r, clip, d.ret, row)

(* The text was the last one captured or put on the clipboard. *)
SeenBefore(clip) ==
    clip.content_type \in {"text", "color"}
        /\ clipboard.last_clip_text = Some(clip.content_text)

(* C34: a captured clip that is not the text seen last, and whose type,    *)
(* text and blob are those of the latest item of the destination group,    *)
(* leaves the store as it is when that item is pinned, and otherwise       *)
(* deletes that item with its subitems and inserts one new item, so the    *)
(* group has as many items as before; no pinned item is deleted.  A text   *)
(* that was seen last is dropped: nothing is inserted or deleted.          *)
C34_InsertTimeDedup ==
    /\ DedupRule({clip \in CaptureClips : ~SeenBefore(clip)})
    /\ \A clip \in {c \in CaptureClips : SeenBefore(c)} :
           \A r \in _process_clip(DB, destination_group_id,
                                  clipboard.last_clip_text, clip, MaxTime) :
               r.new_id = Null /\ r.db = DB

(* C34 as stated: every captured clip with the content of the latest item  *)
(* leaves the store as it is when that item is pinned and replaces that    *)
(* item when it is unpinned.                                               *)
C34_DedupAsStated ==
    \A clip \in CaptureClips :
        \A d \in {_get_destination_group_id(DB, destination_group_id)} :
            \A row \in get_latest_item(d.db, d.ret) :
                SameContent(row, clip) =>
                    \E r \in _process_clip(DB, destination_group_id,
                                           clipboard.last_clip_text, clip, MaxTime) :
                        Deduplicated(d.db, r, clip, d.ret, row)

(* The latest item of the Default group is a captured image with a note,   *)
(* not pinned, and the text "a" was seen last.                             *)
C34_Witness ==
    /\ clipboard.last_clip_text = Some("a")
    /\ \E e \in {clipboard.stored[k] : k \in 1..Len(clipboard.stored)} :
           /\ \E row \in get_latest_item(DB, destination_group_id) :
                  row # Null /\ row[1].id = e.id
           /\ \E i \in items :
                  /\ i.id = e.id /\ i.pinned = 0 /\ i.content_type = "image"
                  /\ SubitemsOf(subitems, i.id) # {}
    /\ \E i \in items : i.content_text = Some("a")

----------------------------------------------------------------------------
(* The group a capture is stored in. *)

(* The item r.new_id is stored in group g, which exists. *)
StoredIn(r, g) ==
    /\ g \in IdsOf(r.db.groups)
    /\ \E new \in r.db.items : new.id = r.new_id[1] /\ new.group_id = g

(* g is the Default group of the database and the persisted destination. *)
FellBackTo(db, g) ==
    /\ \E d \in DefaultGroups(db.groups) : d.id = g
    /\ get_setting(db, "destination_group_id", Null) = Some(Str(g))

(* C35: every capture that is stored is stored in a group that exists      *)
(* then: in the destination group when that exists, and otherwise in the   *)
(* Default group, which becomes the destination and the persisted          *)
(* destination_group_id; the backend's deleteGroup on the destination      *)
(* group makes the Default group the destination and persists it.          *)
C35_CaptureGroupExists ==
    /\ \A clip \in CaptureClips :
           \A r \in _process_clip(DB, destination_group_id,
                                  clipboard.last_clip_text, clip, MaxTime) :
               r.new_id # Null =>
                   /\ StoredIn(r, r.dest)
                   /\ IF destination_group_id \in IdsOf(groups)
                      THEN r.dest = destination_group_id
                      ELSE FellBackTo(r.db, r.dest)
    /\ \A s \in {deleteGroup(DB, current_group_id, destination_group_id,
                             destination_group_id)} :
           /\ s.dest \in IdsOf(s.db.groups)
           /\ s.dest # destination_group_id => FellBackTo(s.db, s.dest)
           /\ destination_group_id \in IdsOf(groups) /\ s.dest = destination_group_id =>
                  _is_default_group(DB, destination_group_id)

(* The destination group has been deleted behind the backend's back and   *)
(* the first capture is waiting to be stored, while a group Work exists.   *)
C35_Witness ==
    /\ destination_group_id \notin IdsOf(groups)
    /\ clipboard.extracted # << >>
    /\ clipboard.last_clip_text = Null
    /\ \E g \in groups : g.name = "Work"

----------------------------------------------------------------------------
(* The order of captures and the changes the watcher ignores. *)

(* C36: of two captures that are stored, the one of the earlier clipboard  *)
(* change has the smaller id and not the later created_at.                 *)
C36_CapturesInOrder ==
    \A j, k \in 1..Len(clipboard.stored) :
        clipboard.stored[j].n < clipboard.stored[k].n =>
            /\ clipboard.stored[j].id < clipboard.stored[k].id
            /\ clipboard.stored[j].created_at <= clipboard.stored[k].created_at

(* A copy made in another program is handled: its snapshot is submitted. *)
ExternalChangeProcessed ==
    (clipboard.notify = Null /\ clipboard'.n = clipboard.n + 1) =>
        Len(clipboard'.futures) = Len(clipboard.futures) + 1

(* C39: _ignore_next_clip is set only while a write of the program itself  *)
(* awaits its dataChanged, and every change made by another program is     *)
(* snapshotted and submitted for capture.                                  *)
C39_OnlyOwnWritesIgnored ==
    /\ [](clipboard.ignore_next_clip => clipboard.notify # Null)
    /\ [][ExternalChangeProcessed]_vars

----------------------------------------------------------------------------
(* A write that raises inside "with self._lock". *)

(* create_group or rename_group raised on the store the thread entered     *)
(* the method with, and the thread has not yet left the with block.        *)
RaisedInWrite(t) ==
    /\ threads[t].pc = "release"
    /\ threads[t].op # Null
    /\ threads[t].op[1].name \in {"create_group", "rename_group"}
    /\ Execute(threads[t].pre[1], threads[t].op[1], 1).err # "none"

(* The failed method leaves the with block: the lock is free for every     *)
(* thread and the store is the one the method was entered with.            *)
FailedWriteLeaves ==
    \A t \in Threads :
        (RaisedInWrite(t) /\ threads'[t].pc # "release") =>
            /\ lock' = FreeLock
            /\ \A u \in Threads : CanAcquire(lock', u)
            /\ DB' = threads[t].pre[1]
            /\ threads'[t].pc \in {"idle", "call"}

(* C37: a create_group or rename_group that raises on the unique name      *)
(* has changed no row and no counter of the store, so no later commit has  *)
(* anything of it to write; the thread leaves the method with the lock     *)
(* free, and whenever no thread is inside a write method the lock is free  *)
(* for any thread to start the next write.                                 *)
C37_FailedWriteReleases ==
    /\ [](\A t \in Threads :
            RaisedInWrite(t) =>
                /\ DB = threads[t].pre[1]
                /\ lock = [owner |-> Some(t), count |-> 1])
    /\ [](AllIdle => lock = FreeLock)
    /\ [][FailedWriteLeaves]_vars

(* rename_group(2, "Default") has raised on one thread while group 2 is    *)
(* still named Work, and the other thread waits to enter a write.          *)
C37_Witness ==
    \E t, u \in Threads :
        /\ RaisedInWrite(t)
        /\ threads[t].op[1].name = "rename_group"
        /\ \E g \in groups : g.id = 2 /\ g.name = "Work"
        /\ u # t
        /\ threads[u].pc = "idle"
        /\ sqlite_sequence.items > 0

----------------------------------------------------------------------------
(* The operation workers and the operationRunning flag. *)

(* The workers that are inside run(). *)
RunningWorkers ==
    {k \in 1..MaxWorkers :
        operation.workers[k] # Null /\ operation.workers[k][1].isRunning}

(* C38: at most one OperationWorker is inside run() at a time, and         *)
(* operationRunning is true from the start of a worker until the handler   *)
(* of its finishedTask or failedTask signal has run.                       *)
C38_OneWorkerFlagHeld ==
    /\ Cardinality(RunningWorkers) <= 1
    /\ \A k \in 1..MaxWorkers : operation.workers[k] # Null => operation.op_running

====
